---------------------------- MODULE Spec2Model ----------------------------
(***************************************************************************)
(* Decision-support core of the fantasy-basketball backend: the lineup     *)
(* optimizer (dbb2_lineup_optimizer.py), the scoring engine                *)
(* (app/dbb2_scoring_engine.py) and the streaming optimizer                *)
(* (app/dbb2_streaming_optimizer.py).                                      *)
(*                                                                         *)
(* Every entry point is a function of its arguments; one action models one *)
(* whole call.  The state is the argument record as it was at the call     *)
(* (args), the caller's roster list object as it is now (roster: the code  *)
(* is handed the caller's own list and dicts), the call's local variables  *)
(* as they are when it returns (locals), and the returned value (result).  *)
(*                                                                         *)
(* Numbers.  Python floats are modelled by exact decimals:                 *)
(*   - a projection field holds TENTHS (points_per_game 20.5 is 205);      *)
(*   - games_per_week holds HUNDREDTHS (3.33 is 333);                      *)
(*   - a product field x games_per_week is therefore in THOUSANDTHS;       *)
(*   - a quotient is an exact fraction [n, d] in lowest terms, d > 0;      *)
(*   - round(x, k) is RoundDiv: nearest, ties to even (Python's rule on    *)
(*     the exact value).                                                   *)
(* Dicts are functions; dict.get(k, 0) is Get.                             *)
(***************************************************************************)
EXTENDS Integers, Sequences, FiniteSets, TLC

VARIABLES pc, args, roster, locals, result

vars == <<pc, args, roster, locals, result>>

(***************************************************************************)
(* Bounds of the model.                                                    *)
(***************************************************************************)
MaxRoster == 3
MaxSlots == 2
MaxCategories == 2
MaxMatchupCategories == 3
\* Longest league_needs list, most games left in the week, most free agents.
MaxNeeds == 2
MaxGames == 4
MaxAvailable == 7
\* Most players on one side of a trade, most offers compared.
MaxTraded == 2
MaxOffers == 2
\* Largest |value_change| (hundredths) and |percent_change| (hundredths of a
\* percent) given to the trade tables.
MaxValueChange == 2200
MaxPercentChange == 1700

(***************************************************************************)
(* Generic helpers.                                                        *)
(***************************************************************************)
Get(d, k) == IF k \in DOMAIN d THEN d[k] ELSE 0

Abs(x) == IF x < 0 THEN -x ELSE x

RECURSIVE GCD(_, _)
GCD(a, b) == IF b = 0 THEN a ELSE GCD(b, a % b)

\* The fraction n/d (d /= 0) in lowest terms with a positive denominator.
Frac(n, d) ==
    LET g == GCD(Abs(n), Abs(d))
        s == IF d < 0 THEN -1 ELSE 1
    IN  [n |-> s * (n \div g), d |-> s * (d \div g)]

FLt(a, b) == a.n * b.d < b.n * a.d
FLe(a, b) == a.n * b.d <= b.n * a.d
FSub(a, b) == Frac(a.n * b.d - b.n * a.d, a.d * b.d)
FAdd(a, b) == Frac(a.n * b.d + b.n * a.d, a.d * b.d)
FDiv(a, b) == Frac(a.n * b.d, a.d * b.n)

\* round(n / d) to the nearest integer, ties to even; d > 0.
RoundDiv(n, d) ==
    LET q == n \div d
        r == n % d
    IN  IF 2 * r < d THEN q
        ELSE IF 2 * r > d THEN q + 1
        ELSE IF q % 2 = 0 THEN q ELSE q + 1

\* round(f * scale) for a fraction f: round(f, 1) in tenths is FRound(f, 10),
\* round(f * 100, 1) in tenths is FRound(f, 1000).
FRound(f, scale) == RoundDiv(f.n * scale, f.d)

RECURSIVE SumSeq(_)
SumSeq(s) == IF s = <<>> THEN 0 ELSE Head(s) + SumSeq(Tail(s))

Range(s) == {s[i] : i \in 1..Len(s)}

\* Sequences without repetition over S, of length at most n.
RECURSIVE Arrangements(_, _)
Arrangements(S, n) ==
    IF n = 0 THEN {<<>>}
    ELSE LET shorter == Arrangements(S, n - 1)
         IN  shorter \cup
             UNION {{Append(s, x) : x \in S \ Range(s)} :
                        s \in {t \in shorter : Len(t) = n - 1}}

(***************************************************************************)
(* Player projection records.  A record holds only the keys the            *)
(* collaborator supplied; every numeric field is in tenths.                *)
(* player_position is the comma-separated string, held as the list of its  *)
(* comma-separated parts (what str.split(',') returns), blanks kept.       *)
(***************************************************************************)
PlayerA ==
    [player_id |-> 1, player_name |-> "A", player_position |-> <<"PG", " SG">>,
     points_per_game |-> 100, assists_per_game |-> 40, turnovers_per_game |-> 20,
     field_goals_made |-> 10, field_goals_attempted |-> 40]

PlayerB ==
    [player_id |-> 2, player_name |-> "B", player_position |-> <<"SG">>,
     points_per_game |-> 200, steals_per_game |-> 1, three_pointers_made |-> 2,
     field_goals_made |-> 80, field_goals_attempted |-> 160]

PlayerC ==
    [player_id |-> 3, player_name |-> "C", player_position |-> <<"SF", "PF">>,
     steals_per_game |-> 10, turnovers_per_game |-> 116]

PlayerD ==
    [player_id |-> 4, player_name |-> "D",
     points_per_game |-> 207, blocks_per_game |-> 10,
     minutes_per_game |-> 300]

PlayerE ==
    [player_id |-> 5, player_name |-> "E", player_position |-> <<"PF", "C">>,
     points_per_game |-> 20, turnovers_per_game |-> 100,
     field_goal_percentage |-> 5]

Pool == {PlayerA, PlayerB, PlayerC, PlayerD, PlayerE}

(***************************************************************************)
(* Lineup optimizer: dbb2_lineup_optimizer.py                              *)
(***************************************************************************)
\* Slot codes in the order the optimizer and the league default list them.
SlotOrder == <<"PG", "SG", "SF", "PF", "C", "G", "F", "UTIL", "BE">>

AllSlots == Range(SlotOrder)

specific_positions == <<"PG", "SG", "SF", "PF", "C">>

\* str.strip() on one part of the position string.
Strip(tok) ==
    CASE tok = " PG" -> "PG"
      [] tok = " SG" -> "SG"
      [] tok = " SF" -> "SF"
      [] tok = " PF" -> "PF"
      [] tok = " C" -> "C"
      [] OTHER -> tok

\* player.get('player_position', '').split(','), each part stripped.
Positions(player) ==
    LET parts == IF "player_position" \in DOMAIN player
                 THEN player.player_position ELSE <<"">>
    IN  [i \in 1..Len(parts) |-> Strip(parts[i])]

\* The player's value in hundredths (fields in tenths, weights in tenths).
calculate_player_value(player, scoring_type) ==
    IF scoring_type = "h2h_points"
    THEN Get(player, "points_per_game") * 10
         + Get(player, "rebounds_per_game") * 12
         + Get(player, "assists_per_game") * 15
         + Get(player, "steals_per_game") * 30
         + Get(player, "blocks_per_game") * 30
         + Get(player, "three_pointers_made") * 30
         - Get(player, "turnovers_per_game") * 10
    ELSE Get(player, "points_per_game") * 5
         + Get(player, "rebounds_per_game") * 15
         + Get(player, "assists_per_game") * 15
         + Get(player, "steals_per_game") * 40
         + Get(player, "blocks_per_game") * 40
         + Get(player, "three_pointers_made") * 30
         + Get(player, "field_goal_percentage") * 500
         + Get(player, "free_throw_percentage") * 300

\* player['value'] = ...: the key is added to (or overwritten in) the dict.
WithValue(player, scoring_type) ==
    [k \in DOMAIN player \cup {"value"} |->
        IF k = "value" THEN calculate_player_value(player, scoring_type)
        ELSE player[k]]

\* list.sort(key=value, reverse=True): stable, so x goes after every element
\* whose value is at least its own.
\* An unstable descending insert: x goes before its equals.
RECURSIVE InsertBeforeEquals(_, _)
InsertBeforeEquals(x, s) ==
    IF s = <<>> THEN <<x>>
    ELSE IF Head(s).value > x.value
         THEN <<Head(s)>> \o InsertBeforeEquals(x, Tail(s))
         ELSE <<x>> \o s

RECURSIVE InsertByValue(_, _)
InsertByValue(x, s) ==
    IF s = <<>> THEN <<x>>
    ELSE IF Head(s).value >= x.value
         THEN <<Head(s)>> \o InsertByValue(x, Tail(s))
         ELSE <<x>> \o s

\* The list left in the order the caller gave it.
KeepCallerOrder(s) == s

RECURSIVE SortByValue(_)
SortByValue(s) ==
    IF s = <<>> THEN <<>>
    ELSE InsertByValue(s[Len(s)], SortByValue(SubSeq(s, 1, Len(s) - 1)))

\* Eligibility of a player for a slot, as each fill loop tests it.
Eligible(player, slot) ==
    LET positions == Range(Positions(player))
    IN  CASE slot = "G" -> positions \cap {"PG", "SG"} /= {}
          [] slot = "F" -> positions \cap {"SF", "PF"} /= {}
          [] slot = "UTIL" -> TRUE
          [] OTHER -> slot \in positions

\* Assign without recording the player as assigned.
AssignUnrecorded(st, slot, player) ==
    [lineup |-> [st.lineup EXCEPT ![slot] = Append(@, player)],
     assigned_players |-> st.assigned_players]

Assign(st, slot, player) ==
    [lineup |-> [st.lineup EXCEPT ![slot] = Append(@, player)],
     assigned_players |-> st.assigned_players \cup {player.player_id}]

\* The inner loop of a specific position: take eligible unassigned players in
\* scan order, leaving the loop once the slot holds slots_needed.
RECURSIVE ScanSpecific(_, _, _, _, _)
ScanSpecific(st, sorted, pos, slots_needed, i) ==
    IF i > Len(sorted) THEN st
    ELSE IF sorted[i].player_id \in st.assigned_players
         THEN ScanSpecific(st, sorted, pos, slots_needed, i + 1)
    ELSE IF Eligible(sorted[i], pos)
         THEN LET st2 == Assign(st, pos, sorted[i])
              IN  IF Len(st2.lineup[pos]) >= slots_needed THEN st2
                  ELSE ScanSpecific(st2, sorted, pos, slots_needed, i + 1)
    ELSE ScanSpecific(st, sorted, pos, slots_needed, i + 1)

RECURSIVE FillSpecific(_, _, _, _)
FillSpecific(st, sorted, req, k) ==
    IF k > Len(specific_positions) THEN st
    ELSE LET pos == specific_positions[k]
         IN  IF pos \notin DOMAIN req \/ req[pos] = 0
             THEN FillSpecific(st, sorted, req, k + 1)
             ELSE FillSpecific(ScanSpecific(st, sorted, pos, req[pos], 1),
                               sorted, req, k + 1)

\* One pass of a flex loop: the first unassigned eligible player, if any.
RECURSIVE TakeFirst(_, _, _, _)
TakeFirst(st, sorted, slot, i) ==
    IF i > Len(sorted) THEN st
    ELSE IF sorted[i].player_id \notin st.assigned_players
            /\ Eligible(sorted[i], slot)
         THEN Assign(st, slot, sorted[i])
         ELSE TakeFirst(st, sorted, slot, i + 1)

\* for _ in range(count): one pass each.
RECURSIVE Passes(_, _, _, _)
Passes(st, sorted, slot, count) ==
    IF count <= 0 THEN st
    ELSE Passes(TakeFirst(st, sorted, slot, 1), sorted, slot, count - 1)

FillFlex(st, sorted, req, slot) ==
    IF slot \in DOMAIN req THEN Passes(st, sorted, slot, req[slot]) ELSE st

\* The lineup dict with every starter assigned, before the bench is set.
FillStarters(sorted, req) ==
    LET st0 == [lineup |-> [pos \in DOMAIN req |-> <<>>], assigned_players |-> {}]
        st1 == FillSpecific(st0, sorted, req, 1)
        st2 == FillFlex(st1, sorted, req, "G")
        st3 == FillFlex(st2, sorted, req, "F")
    IN  FillFlex(st3, sorted, req, "UTIL")

Bench(sorted, assigned_players) ==
    SelectSeq(sorted, LAMBDA p : p.player_id \notin assigned_players)

\* The swap suggestions of one bench player against the starters of one slot.
RECURSIVE SwapsInSlot(_, _, _)
SwapsInSlot(bench_player, pos, starters) ==
    IF starters = <<>> THEN <<>>
    ELSE LET starter == Head(starters)
             rest == SwapsInSlot(bench_player, pos, Tail(starters))
         IN  IF 10 * bench_player.value > 11 * starter.value
             THEN <<[type |-> "swap",
                     bench_out |-> starter.player_name,
                     bench_in |-> bench_player.player_name,
                     slot |-> pos,
                     value_improvement |->
                         RoundDiv(bench_player.value - starter.value, 10)]>>
                  \o rest
             ELSE rest

\* ... over the positions the bench player lists, in their order.
RECURSIVE SwapsOfPlayer(_, _, _)
SwapsOfPlayer(bench_player, bench_positions, lineup) ==
    IF bench_positions = <<>> THEN <<>>
    ELSE LET pos == Head(bench_positions)
             rest == SwapsOfPlayer(bench_player, Tail(bench_positions), lineup)
         IN  IF pos \notin DOMAIN lineup \/ Len(lineup[pos]) = 0 THEN rest
             ELSE SwapsInSlot(bench_player, pos, lineup[pos]) \o rest

RECURSIVE SwapSuggestions(_, _)
SwapSuggestions(bench, lineup) ==
    IF bench = <<>> THEN <<>>
    ELSE SwapsOfPlayer(Head(bench), Positions(Head(bench)), lineup)
         \o SwapSuggestions(Tail(bench), lineup)

\* The unfilled-slot warnings, over position_requirements.items().
RECURSIVE FillSlotSuggestions(_, _, _)
FillSlotSuggestions(lineup, req, k) ==
    IF k > Len(SlotOrder) THEN <<>>
    ELSE LET pos == SlotOrder[k]
             rest == FillSlotSuggestions(lineup, req, k + 1)
             filled == IF pos \in DOMAIN lineup THEN Len(lineup[pos]) ELSE 0
         IN  IF pos \notin DOMAIN req \/ pos = "BE" THEN rest
             ELSE IF filled < req[pos]
                  THEN <<[type |-> "fill_slot", slot |-> pos,
                          slots_empty |-> req[pos] - filled]>> \o rest
                  ELSE rest

generate_lineup_suggestions(lineup, bench, position_requirements) ==
    SwapSuggestions(bench, lineup)
    \o FillSlotSuggestions(lineup, position_requirements, 1)

\* The caller's list after lines 30-34: every dict given its value, the list
\* sorted in place.
SortedRoster(roster_with_projections, scoring_type) ==
    SortByValue([i \in 1..Len(roster_with_projections) |->
                    WithValue(roster_with_projections[i], scoring_type)])

\* The returned record, from the sorted list; total_value is in tenths.
optimize_lineup(sorted, position_requirements) ==
    LET st == FillStarters(sorted, position_requirements)
        bench == Bench(sorted, st.assigned_players)
        lineup == [pos \in DOMAIN st.lineup \cup {"BE"} |->
                      IF pos = "BE" THEN bench ELSE st.lineup[pos]]
        starters == SelectSeq(sorted,
                        LAMBDA p : p.player_id \in st.assigned_players)
    IN  [lineup |-> lineup,
         bench |-> bench,
         total_value |->
             RoundDiv(SumSeq([i \in 1..Len(starters) |-> starters[i].value]), 10),
         starting_count |->
             SumSeq([k \in 1..Len(SlotOrder) |->
                        IF SlotOrder[k] \in DOMAIN lineup /\ SlotOrder[k] /= "BE"
                        THEN Len(lineup[SlotOrder[k]]) ELSE 0]),
         bench_count |-> Len(bench),
         lineup_suggestions |->
             generate_lineup_suggestions(lineup, bench, position_requirements)]

(***************************************************************************)
(* Inputs of the lineup optimizer.                                         *)
(***************************************************************************)
RosterIdsOf(r) == {r[i].player_id : i \in 1..Len(r)}

\* Rosters: players of the pool, each at most once (the rosters table is
\* unique in player_id per league), in any order.
Rosters == Arrangements(Pool, MaxRoster)

\* Count vectors over SlotOrder[1..k] with at most m slots in all.
RECURSIVE CountVectors(_, _)
CountVectors(k, m) ==
    IF k = 0 THEN {<<>>}
    ELSE UNION {{Append(v, c) : v \in CountVectors(k - 1, m - c)} : c \in 0..m}

\* A position_requirements dict: the slots with a positive count, and with
\* zeros either every other slot (written out as 0) or none of them.
RequirementsOf(v, zeros) ==
    [pos \in {SlotOrder[k] : k \in {j \in 1..Len(SlotOrder) : zeros \/ v[j] > 0}} |->
        v[CHOOSE k \in 1..Len(SlotOrder) : SlotOrder[k] = pos]]

Requirements ==
    {RequirementsOf(v, z) : v \in CountVectors(Len(SlotOrder), MaxSlots),
                            z \in BOOLEAN}

LineupScoringTypes == {"roto", "h2h_points"}

NoResult == [none |-> TRUE]

NoLocals == [none |-> TRUE]

InitLineup ==
    /\ pc = "ready"
    /\ \E r \in Rosters, req \in Requirements, t \in LineupScoringTypes :
          /\ args = [fn |-> "optimize_lineup",
                     roster_with_projections |-> r,
                     position_requirements |-> req,
                     scoring_type |-> t]
          /\ roster = r
    /\ locals = NoLocals
    /\ result = NoResult

OptimizeLineup ==
    /\ pc = "ready"
    /\ args.fn = "optimize_lineup"
    /\ LET sorted == SortedRoster(roster, args.scoring_type)
       IN  /\ roster' = sorted
           /\ locals' = [assigned_players |->
                  FillStarters(sorted, args.position_requirements).assigned_players]
           /\ result' = optimize_lineup(sorted, args.position_requirements)
    /\ pc' = "done"
    /\ UNCHANGED args

NextLineup == OptimizeLineup

SpecLineup == InitLineup /\ [][NextLineup]_vars

(***************************************************************************)
(* Properties of the lineup optimizer.                                     *)
(***************************************************************************)
LineupDone == pc = "done" /\ args.fn = "optimize_lineup"

\* The places (slot, index) of the returned lineup holding player id.
PlacesOf(lineup, id) ==
    UNION {{<<pos, i>> : i \in {j \in 1..Len(lineup[pos]) :
                                    lineup[pos][j].player_id = id}} :
              pos \in DOMAIN lineup}

RosterIds(r) == {r[i].player_id : i \in 1..Len(r)}

\* C1: after optimize_lineup every roster player is in exactly one slot list
\* of the returned lineup (bench included), nobody else is in it, and
\* starting_count + bench_count is the roster size.
C1_EveryPlayerInExactlyOneSlot ==
    LineupDone =>
        LET given == args.roster_with_projections
            lineup == result.lineup
        IN  /\ \A id \in RosterIds(given) : Cardinality(PlacesOf(lineup, id)) = 1
            /\ \A pos \in DOMAIN lineup : \A i \in 1..Len(lineup[pos]) :
                   lineup[pos][i].player_id \in RosterIds(given)
            /\ result.starting_count + result.bench_count = Len(given)
            /\ result.bench = lineup["BE"]

\* A three-player roster returned with two starters in two slots and one
\* player on the bench.
C1_Witness ==
    /\ LineupDone
    /\ Len(args.roster_with_projections) = 3
    /\ result.starting_count = 2
    /\ result.bench_count = 1
    /\ Cardinality({pos \in DOMAIN result.lineup \ {"BE"} :
                        Len(result.lineup[pos]) > 0}) = 2

\* Index of player id in the scan order (the roster list after the sort).
ScanIndex(id) == CHOOSE i \in 1..Len(roster) : roster[i].player_id = id

\* Index of player id in the roster as the caller passed it.
GivenIndex(id) ==
    CHOOSE i \in 1..Len(args.roster_with_projections) :
        args.roster_with_projections[i].player_id = id

FillIndex(pos) == CHOOSE k \in 1..Len(SlotOrder) : SlotOrder[k] = pos

\* The slot player id ended in.
SlotOf(id) ==
    CHOOSE pos \in DOMAIN result.lineup :
        \E i \in 1..Len(result.lineup[pos]) : result.lineup[pos][i].player_id = id

\* The scan order: the given players by value descending, equal values in
\* the given order.
ScanOrderIsStableDescending ==
    /\ Len(roster) = Len(args.roster_with_projections)
    /\ RosterIds(roster) = RosterIds(args.roster_with_projections)
    /\ \A i \in 1..Len(roster) :
           roster[i].value = calculate_player_value(
               args.roster_with_projections[GivenIndex(roster[i].player_id)],
               args.scoring_type)
    /\ \A i, j \in 1..Len(roster) :
           i < j =>
               \/ roster[i].value > roster[j].value
               \/ /\ roster[i].value = roster[j].value
                  /\ GivenIndex(roster[i].player_id) < GivenIndex(roster[j].player_id)

\* A starting slot holds eligible players in scan order; every eligible
\* player scanned before one of them was taken by this slot or an earlier one;
\* and a slot left short has no eligible player after it in the fill order.
SlotIsGreedy(pos) ==
    LET list == result.lineup[pos]
        req == args.position_requirements
    IN  /\ \A i \in 1..Len(list) : Eligible(list[i], pos)
        /\ \A i, j \in 1..Len(list) :
               i < j => ScanIndex(list[i].player_id) < ScanIndex(list[j].player_id)
        /\ \A i \in 1..Len(list) : \A k \in 1..Len(roster) :
               (k < ScanIndex(list[i].player_id) /\ Eligible(roster[k], pos))
                   => FillIndex(SlotOf(roster[k].player_id)) <= FillIndex(pos)
        /\ Len(list) < req[pos] =>
               \A k \in 1..Len(roster) :
                   Eligible(roster[k], pos)
                       => FillIndex(SlotOf(roster[k].player_id)) <= FillIndex(pos)

BenchIsTheRestInScanOrder ==
    LET bench == result.lineup["BE"]
    IN  \A i, j \in 1..Len(bench) :
            i < j => ScanIndex(bench[i].player_id) < ScanIndex(bench[j].player_id)

\* C2 as stated: the greedy fill in the fixed slot order, and no slot of
\* position_requirements, BE included, holds more players than its count.
C2_Original_NoSlotOverCount ==
    LineupDone =>
        /\ ScanOrderIsStableDescending
        /\ \A pos \in DOMAIN args.position_requirements \ {"BE"} : SlotIsGreedy(pos)
        /\ BenchIsTheRestInScanOrder
        /\ \A pos \in DOMAIN args.position_requirements :
               Len(result.lineup[pos]) <= args.position_requirements[pos]

\* C2 (amended): players are scanned by value descending, ties in roster
\* order; the starting slots PG, SG, SF, PF, C, G, F, UTIL are filled greedily
\* in that order, none beyond its required count; BE receives every player
\* left, in scan order, whatever its count.  This fixes the assignment.
C2_GreedyFillInFixedOrder ==
    LineupDone =>
        /\ ScanOrderIsStableDescending
        /\ \A pos \in DOMAIN args.position_requirements \ {"BE"} :
               /\ SlotIsGreedy(pos)
               /\ Len(result.lineup[pos]) <= args.position_requirements[pos]
        /\ DOMAIN result.lineup = DOMAIN args.position_requirements \cup {"BE"}
        /\ BenchIsTheRestInScanOrder

\* Two players of equal value (A and B under roto), given in the order B, A,
\* with a lower-valued third: B is scanned first and takes the SG slot, A
\* goes to G.
C2_Witness ==
    /\ LineupDone
    /\ args.scoring_type = "roto"
    /\ Len(roster) = 3
    /\ roster[1].player_id = 2
    /\ roster[2].player_id = 1
    /\ roster[1].value = roster[2].value
    /\ "SG" \in DOMAIN result.lineup /\ Len(result.lineup["SG"]) = 1
    /\ result.lineup["SG"][1].player_id = 2
    /\ "G" \in DOMAIN result.lineup /\ Len(result.lineup["G"]) = 1
    /\ result.lineup["G"][1].player_id = 1

\* C3: the caller's roster list is as it was passed: same order, same
\* records.
C3_RosterNotMutated ==
    LineupDone => roster = args.roster_with_projections

(***************************************************************************)
(* Scoring engine: app/dbb2_scoring_engine.py                              *)
(*                                                                         *)
(* Units: weekly_targets are in hundredths; a category total is an exact   *)
(* fraction; reported values are integers in the unit of their rounding    *)
(* (round(x, 2): hundredths, round(x, 1): tenths).                         *)
(***************************************************************************)
\* The category codes of the model: the documented vocabulary and three codes
\* outside it (XYZ, EFG_PCT, which ends in _PCT, and MINUTES_PER_GAME, whose
\* lower case is a field of the projection records).
CategoryCodes ==
    {"PTS", "REB", "AST", "STL", "BLK", "TO", "3PM", "FGM", "FTM", "OREB",
     "DREB", "FGA", "FTA", "FG_PCT", "FT_PCT", "THREE_PCT", "3P_PCT",
     "XYZ", "EFG_PCT", "MINUTES_PER_GAME"}

\* cat.endswith('_PCT'), over the codes of the model.
EndsWithPct(cat) == cat \in {"FG_PCT", "FT_PCT", "THREE_PCT", "3P_PCT", "EFG_PCT"}

\* cat.lower(), over the codes of the model.
Lower(cat) ==
    CASE cat = "PTS" -> "pts" [] cat = "REB" -> "reb" [] cat = "AST" -> "ast"
      [] cat = "STL" -> "stl" [] cat = "BLK" -> "blk" [] cat = "TO" -> "to"
      [] cat = "3PM" -> "3pm" [] cat = "FGM" -> "fgm" [] cat = "FTM" -> "ftm"
      [] cat = "OREB" -> "oreb" [] cat = "DREB" -> "dreb"
      [] cat = "FGA" -> "fga" [] cat = "FTA" -> "fta"
      [] cat = "FG_PCT" -> "fg_pct" [] cat = "FT_PCT" -> "ft_pct"
      [] cat = "THREE_PCT" -> "three_pct" [] cat = "3P_PCT" -> "3p_pct"
      [] cat = "XYZ" -> "xyz" [] cat = "EFG_PCT" -> "efg_pct"
      [] cat = "MINUTES_PER_GAME" -> "minutes_per_game"
      [] OTHER -> cat

\* key_mapping of the percentage branches (the same table in both functions).
pct_key_mapping ==
    ("FG_PCT" :> <<"field_goals_made", "field_goals_attempted">>)
    @@ ("FT_PCT" :> <<"free_throws_made", "free_throws_attempted">>)
    @@ ("THREE_PCT" :> <<"three_pointers_made", "three_pointers_attempted">>)
    @@ ("3P_PCT" :> <<"three_pointers_made", "three_pointers_attempted">>)

\* key_mapping of calculate_category_total's counting branch.
total_key_mapping ==
    ("PTS" :> "points_per_game") @@ ("REB" :> "rebounds_per_game")
    @@ ("AST" :> "assists_per_game") @@ ("STL" :> "steals_per_game")
    @@ ("BLK" :> "blocks_per_game") @@ ("TO" :> "turnovers_per_game")
    @@ ("3PM" :> "three_pointers_made") @@ ("FGM" :> "field_goals_made")
    @@ ("FTM" :> "free_throws_made")

\* key_mapping of calculate_roto_score's counting branch.
roto_key_mapping ==
    total_key_mapping
    @@ ("OREB" :> "offensive_rebounds") @@ ("DREB" :> "defensive_rebounds")

\* stat_mapping of calculate_h2h_points.
stat_mapping ==
    total_key_mapping
    @@ ("FGA" :> "field_goals_attempted") @@ ("FTA" :> "free_throws_attempted")

\* mapping.get(cat, cat.lower())
KeyOf(mapping, cat) == IF cat \in DOMAIN mapping THEN mapping[cat] ELSE Lower(cat)

Zero == [n |-> 0, d |-> 1]

\* The running sum with only the first projection counted.
SumFirstOnly(projections, key, games_per_week) ==
    IF projections = <<>> THEN 0
    ELSE Get(projections[1], key) * games_per_week

\* The running sum of proj.get(key, 0) * games_per_week, in thousandths.
RECURSIVE SumField(_, _, _)
SumField(projections, key, games_per_week) ==
    IF projections = <<>> THEN 0
    ELSE SumField(SubSeq(projections, 1, Len(projections) - 1), key, games_per_week)
         + Get(projections[Len(projections)], key) * games_per_week

\* total_makes / total_attempts, guarded.
RatioOrZero(total_makes, total_attempts) ==
    IF total_attempts > 0 THEN Frac(total_makes, total_attempts) ELSE Zero

\* category_totals[cat] of calculate_roto_score.
RotoCategoryTotal(roster_projections, cat, games_per_week) ==
    IF EndsWithPct(cat)
    THEN IF cat \in DOMAIN pct_key_mapping
         THEN LET total_makes ==
                      SumField(roster_projections, pct_key_mapping[cat][1], games_per_week)
                  total_attempts ==
                      SumField(roster_projections, pct_key_mapping[cat][2], games_per_week)
              IN  [actual |-> RatioOrZero(total_makes, total_attempts),
                   makes |-> total_makes,
                   attempts |-> total_attempts]
         ELSE [actual |-> Zero]
    ELSE [actual |->
             Frac(SumField(roster_projections, KeyOf(roto_key_mapping, cat),
                           games_per_week), 1000)]

\* The status with TO compared like every other category.
RotoStatusHigherIsBetter(cat, target, actual, gap) ==
    IF FLe(target, actual) THEN "ahead"
    ELSE IF FLe(gap, Frac(target.n, target.d * 10)) THEN "on_track"
    ELSE "behind"

\* The status with turnovers judged by the size of the overshoot.
RotoStatusByOvershoot(cat, target, actual, gap) ==
    IF cat = "TO"
    THEN IF FLe(actual, target) THEN "ahead"
         ELSE IF FLt(FSub(actual, target), Frac(5, 1)) THEN "on_track"
         ELSE "behind"
    ELSE IF FLe(target, actual) THEN "ahead"
         ELSE IF FLe(gap, Frac(target.n, target.d * 10)) THEN "on_track"
         ELSE "behind"

\* The status of one roto category from the unrounded actual and gap.
RotoStatus(cat, target, actual, gap) ==
    IF cat = "TO"
    THEN IF FLe(actual, target) THEN "ahead"
         ELSE IF FLt(gap, Frac(5, 1)) THEN "on_track"
         ELSE "behind"
    ELSE IF FLe(target, actual) THEN "ahead"
         ELSE IF FLe(gap, Frac(target.n, target.d * 10)) THEN "on_track"
         ELSE "behind"

\* category_results[cat] of calculate_roto_score.
RotoCategoryResult(cat, weekly_targets, totals) ==
    LET target == Frac(Get(weekly_targets, cat), 100)
        actual == totals.actual
        gap == FSub(target, actual)
        base == [target |-> Get(weekly_targets, cat),
                 actual |-> FRound(actual, 100),
                 gap |-> FRound(gap, 100),
                 percentage_complete |->
                     IF target.n > 0
                     THEN FRound(FDiv(actual, target), 1000)
                     ELSE 0,
                 status |-> RotoStatus(cat, target, actual, gap)]
    IN  IF EndsWithPct(cat)
        THEN base @@ [makes |-> RoundDiv(Get(totals, "makes"), 100),
                      attempts |-> RoundDiv(Get(totals, "attempts"), 100)]
        ELSE base

CountStatus(category_results, status) ==
    Cardinality({cat \in DOMAIN category_results :
                     category_results[cat].status = status})

calculate_roto_score(roster_projections, categories, weekly_targets, games_per_week) ==
    LET category_totals ==
            [cat \in Range(categories) |->
                RotoCategoryTotal(roster_projections, cat, games_per_week)]
        category_results ==
            [cat \in Range(categories) |->
                RotoCategoryResult(cat, weekly_targets, category_totals[cat])]
    IN  [category_results |-> category_results,
         overall_status |->
             [ahead |-> CountStatus(category_results, "ahead"),
              behind |-> CountStatus(category_results, "behind"),
              on_track |-> CountStatus(category_results, "on_track")],
         games_counted |-> games_per_week * Len(roster_projections)]

\* The mean of the players' own percentages (no attempts: 0).
RECURSIVE SumOfPercentages(_, _, _)
SumOfPercentages(projections, makes_key, attempts_key) ==
    IF projections = <<>> THEN [n |-> 0, d |-> 1]
    ELSE FAdd(SumOfPercentages(Tail(projections), makes_key, attempts_key),
              IF Get(Head(projections), attempts_key) > 0
              THEN Frac(Get(Head(projections), makes_key),
                        Get(Head(projections), attempts_key))
              ELSE [n |-> 0, d |-> 1])

MeanOfPercentages(projections, makes_key, attempts_key) ==
    IF projections = <<>> THEN [n |-> 0, d |-> 1]
    ELSE LET t == SumOfPercentages(projections, makes_key, attempts_key)
         IN  Frac(t.n, t.d * Len(projections))

\* calculate_category_total averaging the players' percentages.
CategoryTotalByMean(projections, category, games_per_week) ==
    IF category \in {"FG_PCT", "FT_PCT"}
    THEN MeanOfPercentages(projections,
                           IF category = "FG_PCT" THEN "field_goals_made"
                           ELSE "free_throws_made",
                           IF category = "FG_PCT" THEN "field_goals_attempted"
                           ELSE "free_throws_attempted")
    ELSE [n |-> 0, d |-> 1]

calculate_category_total(projections, category, games_per_week) ==
    IF EndsWithPct(category)
    THEN IF category \in DOMAIN pct_key_mapping
         THEN RatioOrZero(
                  SumField(projections, pct_key_mapping[category][1], games_per_week),
                  SumField(projections, pct_key_mapping[category][2], games_per_week))
         ELSE Zero
    ELSE Frac(SumField(projections, KeyOf(total_key_mapping, category),
                       games_per_week), 1000)

(***************************************************************************)
(* Inputs of the scoring engine.                                           *)
(***************************************************************************)
\* The sums do not depend on the order of the projections: one order each.
ScoringRosters ==
    {r \in Rosters : \A i, j \in 1..Len(r) : i < j => r[i].player_id < r[j].player_id}

\* league['games_per_week']: 2, 3 and the default 3.33, in hundredths.
GamesPerWeek == {200, 300, 333}

ScoredCodes == {"PTS", "REB", "TO", "FG_PCT", "FT_PCT", "XYZ", "EFG_PCT"}

\* league['categories']: codes without repetition, in any order.
CategoryLists == Arrangements(ScoredCodes, MaxCategories)

\* league['weekly_targets'] dicts, in hundredths.
WeeklyTargets ==
    {<<>>,
     ("PTS" :> 5000) @@ ("REB" :> 1000) @@ ("TO" :> 1000) @@ ("FG_PCT" :> 45)
         @@ ("FT_PCT" :> 80),
     ("PTS" :> 7000) @@ ("TO" :> 500) @@ ("FG_PCT" :> 40) @@ ("XYZ" :> 100),
     ("TO" :> 4000) @@ ("REB" :> 0)}

InitRoto ==
    /\ pc = "ready"
    /\ \E r \in ScoringRosters, c \in CategoryLists, t \in WeeklyTargets,
          g \in GamesPerWeek :
          /\ args = [fn |-> "calculate_roto_score",
                     roster_projections |-> r,
                     categories |-> c,
                     weekly_targets |-> t,
                     games_per_week |-> g]
          /\ roster = r
    /\ locals = NoLocals
    /\ result = NoResult

InitCategoryTotal ==
    /\ pc = "ready"
    /\ \E r \in ScoringRosters, c \in ScoredCodes, g \in GamesPerWeek :
          /\ args = [fn |-> "calculate_category_total",
                     projections |-> r,
                     category |-> c,
                     games_per_week |-> g]
          /\ roster = r
    /\ locals = NoLocals
    /\ result = NoResult

CalculateRotoScore ==
    /\ pc = "ready"
    /\ args.fn = "calculate_roto_score"
    /\ locals' = [category_totals |->
                     [cat \in Range(args.categories) |->
                         RotoCategoryTotal(roster, cat, args.games_per_week)]]
    /\ result' = calculate_roto_score(roster, args.categories, args.weekly_targets,
                                      args.games_per_week)
    /\ pc' = "done"
    /\ UNCHANGED <<args, roster>>

CalculateCategoryTotal ==
    /\ pc = "ready"
    /\ args.fn = "calculate_category_total"
    /\ result' = calculate_category_total(roster, args.category, args.games_per_week)
    /\ pc' = "done"
    /\ UNCHANGED <<args, roster, locals>>

InitRotoScoring == InitRoto \/ InitCategoryTotal

NextRoto == CalculateRotoScore \/ CalculateCategoryTotal

SpecRoto == InitRotoScoring /\ [][NextRoto]_vars

(***************************************************************************)
(* Properties of calculate_roto_score and calculate_category_total.        *)
(***************************************************************************)
RotoDone == pc = "done" /\ args.fn = "calculate_roto_score"

CategoryTotalDone == pc = "done" /\ args.fn = "calculate_category_total"

\* The projection field of a documented counting category (spec section 3).
CountingField(cat) ==
    CASE cat = "PTS" -> "points_per_game"
      [] cat = "REB" -> "rebounds_per_game"
      [] cat = "TO" -> "turnovers_per_game"

CountingCodes == {"PTS", "REB", "TO"}

\* Sum over the projections of the field (0 if absent), in tenths.
FieldSum(projections, key) ==
    SumSeq([i \in 1..Len(projections) |->
               IF key \in DOMAIN projections[i] THEN projections[i][key] ELSE 0])

\* Sum of field x games_per_week over the roster, in thousandths.
ExactActual(cat) ==
    FieldSum(args.roster_projections, CountingField(cat)) * args.games_per_week

\* The weekly target in thousandths, a missing target being 0.
Target1000(cat) ==
    IF cat \in DOMAIN args.weekly_targets THEN args.weekly_targets[cat] * 10 ELSE 0

\* C4 as stated: the reported actual of a counting category IS the sum of
\* field x games_per_week, and the reported gap is target minus that sum.
C4_Original_ReportedActualIsExactSum ==
    RotoDone =>
        \A cat \in Range(args.categories) \cap CountingCodes :
            /\ result.category_results[cat].actual * 10 = ExactActual(cat)
            /\ result.category_results[cat].gap * 10 = Target1000(cat) - ExactActual(cat)

\* C4 (amended): the reported actual of a counting category is the sum of
\* field x games_per_week rounded to two decimals (within half a hundredth
\* of it), the unrounded total is exactly that sum, and the reported gap is
\* target (0 if missing) minus the unrounded sum, rounded to two decimals.
C4_ReportedActualIsRoundedSum ==
    RotoDone =>
        \A cat \in Range(args.categories) \cap CountingCodes :
            LET r == result.category_results[cat]
                total == locals.category_totals[cat].actual
            IN  /\ total.n * 1000 = ExactActual(cat) * total.d
                /\ Abs(r.actual * 10 - ExactActual(cat)) <= 5
                /\ Abs(r.gap * 10 - (Target1000(cat) - ExactActual(cat))) <= 5
                /\ r.target * 10 = Target1000(cat)

\* The spec's example: player B alone (20.0 points per game), 3 games per
\* week, PTS target 50: actual 60.00, gap -10.00, ahead.
C4_Witness ==
    /\ RotoDone
    /\ args.roster_projections = <<PlayerB>>
    /\ args.games_per_week = 300
    /\ "PTS" \in Range(args.categories)
    /\ Get(args.weekly_targets, "PTS") = 5000
    /\ result.category_results["PTS"].actual = 6000
    /\ result.category_results["PTS"].gap = -1000
    /\ result.category_results["PTS"].status = "ahead"

\* C5: each category's status follows the documented rule on the computed
\* (unrounded) actual and gap = target - actual: TO is ahead iff
\* actual <= target, else on_track iff gap < 5, else behind; any other
\* category is ahead iff actual >= target, else on_track iff
\* gap <= 0.1 x target, else behind.  The three counts of overall_status add
\* up to the number of categories scored.
C5_RotoStatusRule ==
    RotoDone =>
        /\ \A cat \in Range(args.categories) :
               LET status == result.category_results[cat].status
                   actual == locals.category_totals[cat].actual
                   \* target and gap over the common denominator 100 * actual.d
                   t == Get(args.weekly_targets, cat) * actual.d
                   a == actual.n * 100
                   gap == t - a
               IN  IF cat = "TO"
                   THEN /\ (status = "ahead") = (a <= t)
                        /\ (status = "on_track") = (a > t /\ gap < 5 * 100 * actual.d)
                        /\ (status = "behind") = (a > t /\ gap >= 5 * 100 * actual.d)
                   ELSE /\ (status = "ahead") = (a >= t)
                        /\ (status = "on_track") = (a < t /\ 10 * gap <= t)
                        /\ (status = "behind") = (a < t /\ 10 * gap > t)
        /\ result.overall_status.ahead + result.overall_status.on_track
               + result.overall_status.behind = Len(args.categories)

\* PTS behind its target and TO above its target (hence on_track) in one
\* score.
C5_Witness ==
    /\ RotoDone
    /\ Range(args.categories) = {"PTS", "TO"}
    /\ result.category_results["PTS"].status = "behind"
    /\ result.category_results["TO"].status = "on_track"
    /\ result.category_results["TO"].gap < 0
    /\ result.overall_status = [ahead |-> 0, behind |-> 1, on_track |-> 1]

\* Sum of makes over sum of attempts (field values alone, no games_per_week),
\* 0 when there are no attempts.
RatioOfSums(projections, cat) ==
    LET makes == FieldSum(projections, pct_key_mapping[cat][1])
        attempts == FieldSum(projections, pct_key_mapping[cat][2])
    IN  IF attempts > 0 THEN Frac(makes, attempts) ELSE Zero

\* C6: for a ratio category the aggregate of calculate_roto_score and of
\* calculate_category_total is sum(makes) / sum(attempts), 0 without
\* attempts, whatever games_per_week is; calculate_roto_score reports it
\* rounded to two decimals.
C6_RatioOfSums ==
    /\ RotoDone =>
           \A cat \in Range(args.categories) \cap DOMAIN pct_key_mapping :
               /\ locals.category_totals[cat].actual
                      = RatioOfSums(args.roster_projections, cat)
               /\ result.category_results[cat].actual
                      = FRound(RatioOfSums(args.roster_projections, cat), 100)
    /\ CategoryTotalDone =>
           (args.category \in DOMAIN pct_key_mapping
                => result = RatioOfSums(args.projections, args.category))

\* A and B together: 9.0 makes on 20.0 attempts is 0.45, which is not the
\* mean 0.375 of their percentages 0.25 and 0.5.
C6_Witness ==
    /\ CategoryTotalDone
    /\ args.projections = <<PlayerA, PlayerB>>
    /\ args.category = "FG_PCT"
    /\ args.games_per_week = 333
    /\ result = [n |-> 9, d |-> 20]
    /\ result /= MeanOfPercentages(args.projections, "field_goals_made",
                                   "field_goals_attempted")

(***************************************************************************)
(* calculate_h2h_categories                                                *)
(***************************************************************************)
\* The status with every category compared the same way (higher wins).
H2HStatusHigherWins(cat, my_val, opp_val) ==
    IF FLt(opp_val, my_val) THEN "win"
    ELSE IF FLt(my_val, opp_val) THEN "loss"
    ELSE "tie"

\* win / loss / tie of one category; for TO the lower total wins.
H2HStatus(cat, my_val, opp_val) ==
    IF cat = "TO"
    THEN IF FLt(my_val, opp_val) THEN "win"
         ELSE IF FLt(opp_val, my_val) THEN "loss"
         ELSE "tie"
    ELSE IF FLt(opp_val, my_val) THEN "win"
         ELSE IF FLt(my_val, opp_val) THEN "loss"
         ELSE "tie"

\* The entry with a lead over an opponent total of 0 counted as 100%.
BreakdownEntryFullLead(cat, my_val, opp_val) ==
    LET diff == FSub(my_val, opp_val)
    IN  [category |-> cat,
         my_total |-> FRound(my_val, 100),
         opponent_total |-> FRound(opp_val, 100),
         difference |-> FRound(diff, 100),
         percent_difference |->
             IF opp_val.n > 0
             THEN FRound(FDiv(diff, opp_val), 1000)
             ELSE IF diff.n > 0 THEN 1000 ELSE IF diff.n < 0 THEN -1000 ELSE 0,
         status |-> H2HStatus(cat, my_val, opp_val)]

\* One category_breakdown entry; totals and difference in hundredths,
\* percent_difference in tenths of a percent.
BreakdownEntry(cat, my_val, opp_val) ==
    LET diff == FSub(my_val, opp_val)
    IN  [category |-> cat,
         my_total |-> FRound(my_val, 100),
         opponent_total |-> FRound(opp_val, 100),
         difference |-> FRound(diff, 100),
         percent_difference |->
             IF opp_val.n > 0
             THEN FRound(FDiv(diff, opp_val), 1000)
             ELSE 0,
         status |-> H2HStatus(cat, my_val, opp_val)]

CountEntries(category_breakdown, status) ==
    Len(SelectSeq(category_breakdown, LAMBDA c : c.status = status))

MatchupResult(wins, losses) ==
    IF wins > losses THEN "win" ELSE IF losses > wins THEN "loss" ELSE "tie"

\* The close filter without its tie test.
IsCloseWithTies(c) == Abs(c.percent_difference) <= 100

\* abs(percent_difference) <= 10 and status != 'tie'
IsClose(c) == Abs(c.percent_difference) <= 100 /\ c.status /= "tie"

\* abs(percent_difference) > 30
IsBlowout(c) == Abs(c.percent_difference) > 300

\* wins / len(categories) * 100 cut to one decimal instead of rounded.
WinningProbabilityTruncated(wins, count) == (wins * 1000) \div count

\* round(wins / len(categories) * 100, 1), in tenths of a percent; count > 0.
WinningProbability(wins, count) == RoundDiv(wins * 1000, count)

Raised(exception) == [raised |-> exception]

calculate_h2h_categories(my_projections, opponent_projections, categories, games_per_week) ==
    LET my_totals ==
            [cat \in Range(categories) |->
                calculate_category_total(my_projections, cat, games_per_week)]
        opp_totals ==
            [cat \in Range(categories) |->
                calculate_category_total(opponent_projections, cat, games_per_week)]
        category_breakdown ==
            [i \in 1..Len(categories) |->
                BreakdownEntry(categories[i], my_totals[categories[i]],
                               opp_totals[categories[i]])]
        wins == CountEntries(category_breakdown, "win")
        losses == CountEntries(category_breakdown, "loss")
        ties == CountEntries(category_breakdown, "tie")
        names(list) == [i \in 1..Len(list) |-> list[i].category]
    IN  \* line 253 divides by len(categories)
        IF Len(categories) = 0 THEN Raised("ZeroDivisionError")
        ELSE [matchup_result |-> MatchupResult(wins, losses),
              wins |-> wins,
              losses |-> losses,
              ties |-> ties,
              categories_won |->
                  names(SelectSeq(category_breakdown, LAMBDA c : c.status = "win")),
              categories_lost |->
                  names(SelectSeq(category_breakdown, LAMBDA c : c.status = "loss")),
              category_breakdown |-> category_breakdown,
              close_categories |-> SelectSeq(category_breakdown, IsClose),
              blowout_categories |-> SelectSeq(category_breakdown, IsBlowout),
              winning_probability |-> WinningProbability(wins, Len(categories))]

\* Two teams of one league: no player on both.
MatchupRosters ==
    {<<m, o>> \in ScoringRosters \X ScoringRosters : RosterIdsOf(m) \cap RosterIdsOf(o) = {}}

MatchupCodes == {"PTS", "REB", "TO", "FG_PCT"}

MatchupCategoryLists == Arrangements(MatchupCodes, MaxMatchupCategories)

InitH2HCategories ==
    /\ pc = "ready"
    /\ \E mo \in MatchupRosters, c \in MatchupCategoryLists, g \in GamesPerWeek :
          /\ args = [fn |-> "calculate_h2h_categories",
                     my_projections |-> mo[1],
                     opponent_projections |-> mo[2],
                     categories |-> c,
                     games_per_week |-> g]
          /\ roster = mo[1]
    /\ locals = NoLocals
    /\ result = NoResult

CalculateH2HCategories ==
    /\ pc = "ready"
    /\ args.fn = "calculate_h2h_categories"
    /\ locals' =
           [my_totals |->
                [cat \in Range(args.categories) |->
                    calculate_category_total(roster, cat, args.games_per_week)],
            opp_totals |->
                [cat \in Range(args.categories) |->
                    calculate_category_total(args.opponent_projections, cat,
                                             args.games_per_week)]]
    /\ result' = calculate_h2h_categories(roster, args.opponent_projections,
                                          args.categories, args.games_per_week)
    /\ pc' = "done"
    /\ UNCHANGED <<args, roster>>

NextH2HCategories == CalculateH2HCategories

SpecH2HCategories == InitH2HCategories /\ [][NextH2HCategories]_vars

(***************************************************************************)
(* Properties of calculate_h2h_categories.                                 *)
(***************************************************************************)
H2HReturned ==
    /\ pc = "done"
    /\ args.fn = "calculate_h2h_categories"
    /\ "raised" \notin DOMAIN result

\* Sign of my_total - opponent_total (unrounded) for category cat.
SignOfDifference(cat) ==
    LET m == locals.my_totals[cat]
        o == locals.opp_totals[cat]
        x == m.n * o.d - o.n * m.d
    IN  IF x > 0 THEN 1 ELSE IF x < 0 THEN -1 ELSE 0

\* C7: a category other than TO is a win iff my total is the greater, a loss
\* iff it is the smaller, a tie iff the totals are equal; for TO the lower
\* total wins.  wins + losses + ties is the number of categories, wins and
\* losses count the entries so classified, and matchup_result is win iff
\* wins > losses, loss iff losses > wins, tie otherwise.
C7_H2HStatusAndVerdict ==
    H2HReturned =>
        LET b == result.category_breakdown
        IN  /\ Len(b) = Len(args.categories)
            /\ \A i \in 1..Len(b) :
                   LET sgn == SignOfDifference(args.categories[i])
                       better == IF args.categories[i] = "TO" THEN -sgn ELSE sgn
                   IN  /\ b[i].category = args.categories[i]
                       /\ (b[i].status = "win") = (better = 1)
                       /\ (b[i].status = "loss") = (better = -1)
                       /\ (b[i].status = "tie") = (better = 0)
            /\ result.wins = Cardinality({i \in 1..Len(b) : b[i].status = "win"})
            /\ result.losses = Cardinality({i \in 1..Len(b) : b[i].status = "loss"})
            /\ result.wins + result.losses + result.ties = Len(args.categories)
            /\ (result.matchup_result = "win") = (result.wins > result.losses)
            /\ (result.matchup_result = "loss") = (result.losses > result.wins)
            /\ (result.matchup_result = "tie") = (result.wins = result.losses)

\* TO won with the lower total, PTS lost with the lower total, a third
\* category decided: three categories, one matchup.
C7_Witness ==
    /\ H2HReturned
    /\ Len(args.categories) = 3
    /\ \E i, j \in 1..3 :
          /\ result.category_breakdown[i].category = "TO"
          /\ result.category_breakdown[i].status = "win"
          /\ result.category_breakdown[i].difference < 0
          /\ result.category_breakdown[j].category = "PTS"
          /\ result.category_breakdown[j].status = "loss"
          /\ result.category_breakdown[j].difference < 0
    /\ result.losses = 2
    /\ result.matchup_result = "loss"

\* C8 as stated: winning_probability is in [0, 100] and is exactly
\* 100 x wins / |categories|.
C8_Original_ExactWinningProbability ==
    H2HReturned =>
        /\ result.winning_probability \in 0..1000
        /\ result.winning_probability * Len(args.categories) = 1000 * result.wins

\* C8 (amended): the returned winning_probability is in [0, 100] and is
\* 100 x wins / |categories| rounded to one decimal (within 0.05 of it),
\* ties counting toward neither side.
C8_RoundedWinningProbability ==
    H2HReturned =>
        /\ result.winning_probability \in 0..1000
        /\ 2 * Abs(result.winning_probability * Len(args.categories)
                   - 1000 * result.wins) <= Len(args.categories)
        /\ result.wins = Cardinality({i \in 1..Len(args.categories) :
                                          result.category_breakdown[i].status = "win"})

\* Two wins and a tie in three categories: 66.7.
C8_Witness ==
    /\ H2HReturned
    /\ Len(args.categories) = 3
    /\ result.wins = 2
    /\ result.ties = 1
    /\ result.winning_probability = 667

\* C9: close_categories lists exactly the entries that are not tied and have
\* |percent_difference| <= 10, blowout_categories exactly those with
\* |percent_difference| > 30, both in category order; no entry is in both,
\* and a tied entry is in neither.
C9_CloseAndBlowout ==
    H2HReturned =>
        LET b == result.category_breakdown
            close == result.close_categories
            blowout == result.blowout_categories
        IN  /\ \A i \in 1..Len(b) :
                   /\ (b[i] \in Range(close))
                          = (b[i].status /= "tie"
                             /\ b[i].percent_difference \in -100..100)
                   /\ (b[i] \in Range(blowout))
                          = (b[i].percent_difference \notin -300..300)
                   /\ b[i].status = "tie"
                          => b[i] \notin Range(close) \cup Range(blowout)
            /\ Range(close) \cap Range(blowout) = {}
            /\ Range(close) \cup Range(blowout) \subseteq Range(b)
            /\ Len(close) = Cardinality(Range(close))
            /\ Len(blowout) = Cardinality(Range(blowout))

\* One close category, one blowout and one tie in the same matchup.
C9_Witness ==
    /\ H2HReturned
    /\ Len(args.categories) = 3
    /\ Len(result.close_categories) = 1
    /\ result.close_categories[1].percent_difference /= 0
    /\ Len(result.blowout_categories) = 1
    /\ result.ties = 1

(***************************************************************************)
(* calculate_h2h_points                                                    *)
(*                                                                         *)
(* points_values holds weights in tenths, so a player's points are in      *)
(* ten-thousandths (tenths x tenths x hundredths); reported points are in  *)
(* tenths.                                                                 *)
(***************************************************************************)
\* The loop over points_values.items() for one projection.
RECURSIVE SumStats(_, _, _, _)
SumStats(stats, proj, points_values, games_per_week) ==
    IF stats = {} THEN 0
    ELSE LET stat == CHOOSE x \in stats : TRUE
         IN  Get(proj, KeyOf(stat_mapping, stat)) * points_values[stat] * games_per_week
             + SumStats(stats \ {stat}, proj, points_values, games_per_week)

\* player_points without the games_per_week factor (rescaled to the unit).
PlayerPointsPerGame(proj, points_values, games_per_week) ==
    SumStats(DOMAIN points_values, proj, points_values, 100)

PlayerPoints(proj, points_values, games_per_week) ==
    SumStats(DOMAIN points_values, proj, points_values, games_per_week)

\* player_breakdown.sort(key=fantasy_points, reverse=True): stable.
RECURSIVE InsertByPoints(_, _)
InsertByPoints(x, s) ==
    IF s = <<>> THEN <<x>>
    ELSE IF Head(s).fantasy_points >= x.fantasy_points
         THEN <<Head(s)>> \o InsertByPoints(x, Tail(s))
         ELSE <<x>> \o s

RECURSIVE SortByPoints(_)
SortByPoints(s) ==
    IF s = <<>> THEN <<>>
    ELSE InsertByPoints(s[Len(s)], SortByPoints(SubSeq(s, 1, Len(s) - 1)))

calculate_h2h_points(roster_projections, points_values, games_per_week) ==
    LET points == [i \in 1..Len(roster_projections) |->
                      PlayerPoints(roster_projections[i], points_values, games_per_week)]
        total_points == SumSeq(points)
        player_breakdown ==
            [i \in 1..Len(roster_projections) |->
                [player_name |->
                     IF "player_name" \in DOMAIN roster_projections[i]
                     THEN roster_projections[i].player_name ELSE "Unknown",
                 fantasy_points |-> RoundDiv(points[i], 1000)]]
    IN  [total_fantasy_points |-> RoundDiv(total_points, 1000),
         player_breakdown |-> SortByPoints(player_breakdown),
         average_per_player |->
             IF Len(roster_projections) > 0
             THEN RoundDiv(total_points, 1000 * Len(roster_projections))
             ELSE 0]

\* league['points_values'] dicts, weights in tenths.
PointsValues ==
    {<<>>,
     ("PTS" :> 10),
     ("PTS" :> 10) @@ ("REB" :> 12) @@ ("TO" :> -10),
     ("PTS" :> 10) @@ ("XYZ" :> 20),
     ("TO" :> -10) @@ ("STL" :> 30)}

InitH2HPoints ==
    /\ pc = "ready"
    /\ \E r \in Rosters, v \in PointsValues, g \in GamesPerWeek :
          /\ args = [fn |-> "calculate_h2h_points",
                     roster_projections |-> r,
                     points_values |-> v,
                     games_per_week |-> g]
          /\ roster = r
    /\ locals = NoLocals
    /\ result = NoResult

CalculateH2HPoints ==
    /\ pc = "ready"
    /\ args.fn = "calculate_h2h_points"
    /\ locals' = [total_points |->
                     SumSeq([i \in 1..Len(roster) |->
                                PlayerPoints(roster[i], args.points_values,
                                             args.games_per_week)])]
    /\ result' = calculate_h2h_points(roster, args.points_values, args.games_per_week)
    /\ pc' = "done"
    /\ UNCHANGED <<args, roster>>

NextH2HPoints == CalculateH2HPoints

SpecH2HPoints == InitH2HPoints /\ [][NextH2HPoints]_vars

(***************************************************************************)
(* Properties of calculate_h2h_points.                                     *)
(***************************************************************************)
PointsDone == pc = "done" /\ args.fn = "calculate_h2h_points"

\* The projection field of a documented point category; none for a code
\* outside the vocabulary.
PointField(stat) ==
    CASE stat = "PTS" -> "points_per_game"
      [] stat = "REB" -> "rebounds_per_game"
      [] stat = "STL" -> "steals_per_game"
      [] stat = "TO" -> "turnovers_per_game"
      [] OTHER -> "(none)"

\* Sum over the declared point categories of field x weight x games_per_week
\* for one projection, in ten-thousandths.
ExactPlayerPoints(proj) ==
    LET stats == DOMAIN args.points_values
        term(stat) ==
            (IF PointField(stat) \in DOMAIN proj THEN proj[PointField(stat)] ELSE 0)
            * args.points_values[stat] * args.games_per_week
        order == CHOOSE q \in [1..Cardinality(stats) -> stats] : Range(q) = stats
    IN  SumSeq([k \in 1..Cardinality(stats) |-> term(order[k])])

ExactTotalPoints ==
    SumSeq([i \in 1..Len(args.roster_projections) |->
               ExactPlayerPoints(args.roster_projections[i])])

PlayerNamed(name) ==
    CHOOSE p \in Range(args.roster_projections) : p.player_name = name

BreakdownIsPerPlayerDescending ==
    LET b == result.player_breakdown
    IN  /\ Len(b) = Len(args.roster_projections)
        /\ {b[i].player_name : i \in 1..Len(b)}
               = {p.player_name : p \in Range(args.roster_projections)}
        /\ \A i \in 1..Len(b) :
               Abs(b[i].fantasy_points * 1000
                   - ExactPlayerPoints(PlayerNamed(b[i].player_name))) <= 500
        /\ \A i, j \in 1..Len(b) :
               i < j => b[i].fantasy_points >= b[j].fantasy_points

EmptyRosterScoresZero ==
    args.roster_projections = <<>> =>
        /\ result.total_fantasy_points = 0
        /\ result.average_per_player = 0
        /\ result.player_breakdown = <<>>

\* C10 as stated: total_fantasy_points IS the sum over players and declared
\* point categories of field x weight x games_per_week.
C10_Original_TotalIsExactSum ==
    PointsDone =>
        /\ result.total_fantasy_points * 1000 = ExactTotalPoints
        /\ BreakdownIsPerPlayerDescending
        /\ EmptyRosterScoresZero

\* C10 (amended): total_fantasy_points is that sum rounded to one decimal
\* (within 0.05 of it); there is one breakdown entry per input player, each
\* the player's own sum rounded to one decimal, in non-increasing order of
\* the rounded points; an empty roster gives total 0, average 0 and an empty
\* breakdown.
C10_TotalIsRoundedSum ==
    PointsDone =>
        /\ locals.total_points = ExactTotalPoints
        /\ Abs(result.total_fantasy_points * 1000 - ExactTotalPoints) <= 500
        /\ BreakdownIsPerPlayerDescending
        /\ EmptyRosterScoresZero

\* The spec's example: A and B total 30.0 points per game; with
\* points_values {PTS: 1.0} and 2 games per week the total is 60.0.
C10_Witness ==
    /\ PointsDone
    /\ Range(args.roster_projections) = {PlayerA, PlayerB}
    /\ args.points_values = ("PTS" :> 10)
    /\ args.games_per_week = 200
    /\ result.total_fantasy_points = 600
    /\ result.player_breakdown[1] = [player_name |-> "B", fantasy_points |-> 400]

(***************************************************************************)
(* get_gap_analysis                                                        *)
(*                                                                         *)
(* category_results is the dict calculate_roto_score returns: its keys in  *)
(* insertion order are the league's categories.  gap, surplus and          *)
(* per_player_needed are in hundredths.                                    *)
(***************************************************************************)
\* An insertion that leaves the list in arrival order.
InsertLast(x, s) == Append(s, x)

\* needs_help.sort(key=lambda x: abs(x['gap']), reverse=True): stable.
RECURSIVE InsertByAbsGap(_, _)
InsertByAbsGap(x, s) ==
    IF s = <<>> THEN <<x>>
    ELSE IF Abs(Head(s).gap) >= Abs(x.gap)
         THEN <<Head(s)>> \o InsertByAbsGap(x, Tail(s))
         ELSE <<x>> \o s

RECURSIVE SortByAbsGap(_)
SortByAbsGap(s) ==
    IF s = <<>> THEN <<>>
    ELSE InsertByAbsGap(s[Len(s)], SortByAbsGap(SubSeq(s, 1, Len(s) - 1)))

\* doing_well.sort(key=lambda x: x['surplus'], reverse=True): stable.
RECURSIVE InsertBySurplus(_, _)
InsertBySurplus(x, s) ==
    IF s = <<>> THEN <<x>>
    ELSE IF Head(s).surplus >= x.surplus
         THEN <<Head(s)>> \o InsertBySurplus(x, Tail(s))
         ELSE <<x>> \o s

RECURSIVE SortBySurplus(_)
SortBySurplus(s) ==
    IF s = <<>> THEN <<>>
    ELSE InsertBySurplus(s[Len(s)], SortBySurplus(SubSeq(s, 1, Len(s) - 1)))

NeedsHelpEntry(cat, res, roster_size) ==
    [category |-> cat,
     gap |-> res.gap,
     target |-> res.target,
     actual |-> res.actual,
     per_player_needed |->
         IF roster_size > 0 THEN RoundDiv(res.gap, roster_size) ELSE 0]

DoingWellEntry(cat, res) ==
    [category |-> cat,
     surplus |-> Abs(res.gap),
     target |-> res.target,
     actual |-> res.actual]

\* [x['category'] for x in list[:k]]
TopCategories(list, k) ==
    [i \in 1..(IF Len(list) < k THEN Len(list) ELSE k) |-> list[i].category]

\* keys: the keys of category_results in insertion order.
get_gap_analysis(keys, category_results, roster_size) ==
    LET behind == SelectSeq(keys, LAMBDA c : category_results[c].status = "behind")
        ahead == SelectSeq(keys, LAMBDA c : category_results[c].status = "ahead")
        needs_help ==
            SortByAbsGap([i \in 1..Len(behind) |->
                NeedsHelpEntry(behind[i], category_results[behind[i]], roster_size)])
        doing_well ==
            SortBySurplus([i \in 1..Len(ahead) |->
                DoingWellEntry(ahead[i], category_results[ahead[i]])])
    IN  [needs_help |-> needs_help,
         doing_well |-> doing_well,
         recommendations |->
             (IF needs_help # <<>>
              THEN <<[text |-> "Priority categories",
                      categories |-> TopCategories(needs_help, 3)]>>
              ELSE <<>>)
             \o (IF doing_well # <<>>
                 THEN <<[text |-> "Strong in",
                         categories |-> TopCategories(doing_well, 2)]>>
                 ELSE <<>>)]

\* The gaps endpoint: the score of the league's roster, then its roster_count.
InitGapAnalysis ==
    /\ pc = "ready"
    /\ \E r \in ScoringRosters, c \in CategoryLists, t \in WeeklyTargets,
          g \in GamesPerWeek, n \in 0..MaxRoster :
          /\ args = [fn |-> "get_gap_analysis",
                     keys |-> c,
                     category_results |->
                         calculate_roto_score(r, c, t, g).category_results,
                     roster_size |-> n]
          /\ roster = r
    /\ locals = NoLocals
    /\ result = NoResult

GetGapAnalysis ==
    /\ pc = "ready"
    /\ args.fn = "get_gap_analysis"
    /\ result' = get_gap_analysis(args.keys, args.category_results, args.roster_size)
    /\ pc' = "done"
    /\ UNCHANGED <<args, roster, locals>>

NextGapAnalysis == GetGapAnalysis

SpecGapAnalysis == InitGapAnalysis /\ [][NextGapAnalysis]_vars

(***************************************************************************)
(* Properties of get_gap_analysis.                                         *)
(***************************************************************************)
GapDone == pc = "done" /\ args.fn = "get_gap_analysis"

CategoriesOf(list) == {list[i].category : i \in 1..Len(list)}

CategoriesWithStatus(status) ==
    {c \in DOMAIN args.category_results : args.category_results[c].status = status}

\* The two lists hold exactly the behind and the ahead categories, once each,
\* with the gap of the category, each list largest |gap| first.
GapListsAreFilteredAndSorted ==
    LET nh == result.needs_help
        dw == result.doing_well
    IN  /\ CategoriesOf(nh) = CategoriesWithStatus("behind")
        /\ Len(nh) = Cardinality(CategoriesWithStatus("behind"))
        /\ CategoriesOf(dw) = CategoriesWithStatus("ahead")
        /\ Len(dw) = Cardinality(CategoriesWithStatus("ahead"))
        /\ \A c \in CategoriesWithStatus("on_track") :
               c \notin CategoriesOf(nh) \cup CategoriesOf(dw)
        /\ \A i \in 1..Len(nh) :
               nh[i].gap = args.category_results[nh[i].category].gap
        /\ \A i \in 1..Len(dw) :
               dw[i].surplus = Abs(args.category_results[dw[i].category].gap)
        /\ \A i, j \in 1..Len(nh) : i < j => Abs(nh[i].gap) >= Abs(nh[j].gap)
        /\ \A i, j \in 1..Len(dw) : i < j => dw[i].surplus >= dw[j].surplus

\* C11 as stated: per_player_needed IS gap / roster_size.
C11_Original_PerPlayerNeededIsExact ==
    GapDone =>
        /\ GapListsAreFilteredAndSorted
        /\ \A i \in 1..Len(result.needs_help) :
               IF args.roster_size > 0
               THEN result.needs_help[i].per_player_needed * args.roster_size
                        = result.needs_help[i].gap
               ELSE result.needs_help[i].per_player_needed = 0

\* C11 (amended): needs_help holds exactly the behind categories, largest
\* |gap| first, doing_well exactly the ahead categories, largest surplus
\* (|gap|) first, an on_track category is in neither; per_player_needed is
\* gap / roster_size rounded to two decimals (within 0.005 of it), and 0
\* when roster_size is 0.
C11_GapAnalysis ==
    GapDone =>
        /\ GapListsAreFilteredAndSorted
        /\ \A i \in 1..Len(result.needs_help) :
               IF args.roster_size > 0
               THEN 2 * Abs(result.needs_help[i].per_player_needed * args.roster_size
                            - result.needs_help[i].gap) <= args.roster_size
               ELSE result.needs_help[i].per_player_needed = 0

\* Two behind categories given smaller gap first come back larger gap first,
\* with a gap that three players do not divide evenly.
C11_Witness ==
    /\ GapDone
    /\ Len(args.keys) = 2
    /\ Len(result.needs_help) = 2
    /\ result.needs_help[1].category = args.keys[2]
    /\ result.needs_help[1].gap > result.needs_help[2].gap
    /\ args.roster_size = 3
    /\ result.needs_help[1].per_player_needed * 3 # result.needs_help[1].gap

(***************************************************************************)
(* Trade analyzer: get_category_value                                      *)
(*                                                                         *)
(* Weights are in tenths, so a category value is in hundredths.            *)
(***************************************************************************)
category_mapping ==
    ("PTS" :> <<"points_per_game", 5>>) @@ ("REB" :> <<"rebounds_per_game", 15>>)
    @@ ("AST" :> <<"assists_per_game", 15>>) @@ ("STL" :> <<"steals_per_game", 40>>)
    @@ ("BLK" :> <<"blocks_per_game", 40>>) @@ ("3PM" :> <<"three_pointers_made", 30>>)
    @@ ("TO" :> <<"turnovers_per_game", -15>>)
    @@ ("FG_PCT" :> <<"field_goal_percentage", 500>>)
    @@ ("FT_PCT" :> <<"free_throw_percentage", 300>>)

get_category_value(player, category) ==
    IF category \in DOMAIN category_mapping
    THEN Get(player, category_mapping[category][1]) * category_mapping[category][2]
    ELSE 0

(***************************************************************************)
(* Every component called with a category code outside the vocabulary.     *)
(***************************************************************************)
UnknownCodes == CategoryCodes \ (DOMAIN roto_key_mapping \cup DOMAIN stat_mapping
                                 \cup DOMAIN pct_key_mapping \cup DOMAIN category_mapping)

UnknownWeights == {10, 25, -10}

InitUnknownCategory ==
    /\ pc = "ready"
    /\ \E code \in UnknownCodes, r \in ScoringRosters, g \in GamesPerWeek :
          /\ roster = r
          /\ \/ \E t \in WeeklyTargets :
                   args = [fn |-> "calculate_roto_score",
                           roster_projections |-> r,
                           categories |-> <<code>>,
                           weekly_targets |-> t,
                           games_per_week |-> g]
             \/ args = [fn |-> "calculate_category_total",
                        projections |-> r,
                        category |-> code,
                        games_per_week |-> g]
             \/ \E w \in UnknownWeights :
                   args = [fn |-> "calculate_h2h_points",
                           roster_projections |-> r,
                           points_values |-> (code :> w),
                           games_per_week |-> g]
             \/ /\ Len(r) = 1
                /\ args = [fn |-> "get_category_value",
                           player |-> r[1],
                           category |-> code]
    /\ locals = NoLocals
    /\ result = NoResult

GetCategoryValue ==
    /\ pc = "ready"
    /\ args.fn = "get_category_value"
    /\ result' = [value |-> get_category_value(args.player, args.category)]
    /\ pc' = "done"
    /\ UNCHANGED <<args, roster, locals>>

NextUnknownCategory ==
    \/ CalculateRotoScore
    \/ CalculateCategoryTotal
    \/ CalculateH2HPoints
    \/ GetCategoryValue

SpecUnknownCategory == InitUnknownCategory /\ [][NextUnknownCategory]_vars

\* C12: a category code outside the vocabulary has total 0 in
\* calculate_roto_score and calculate_category_total, contributes 0 in
\* calculate_h2h_points and has value 0 in get_category_value, whatever
\* fields the projections carry.
C12_UnknownCodeContributesZero ==
    pc = "done" =>
        CASE args.fn = "calculate_roto_score" ->
                 /\ locals.category_totals[args.categories[1]].actual = Zero
                 /\ result.category_results[args.categories[1]].actual = 0
          [] args.fn = "calculate_category_total" -> result = Zero
          [] args.fn = "calculate_h2h_points" ->
                 /\ locals.total_points = 0
                 /\ result.total_fantasy_points = 0
          [] args.fn = "get_category_value" -> result.value = 0
          [] OTHER -> TRUE

(***************************************************************************)
(* Trade analyzer: dbb2_trade_analyzer.py                                  *)
(*                                                                         *)
(* A roster value and value_change are in hundredths, percent_change is an *)
(* exact fraction of a percent; the category totals of the impact analysis *)
(* are in ten-thousandths (hundredths x games_per_week in hundredths).     *)
(***************************************************************************)
\* The sum over the players and the league's categories.
RECURSIVE calculate_roster_value(_, _)
calculate_roster_value(roster_list, league_config) ==
    IF roster_list = <<>> THEN 0
    ELSE LET categories == league_config.categories
         IN  SumSeq([i \in 1..Len(categories) |->
                        get_category_value(Head(roster_list), categories[i])])
             + calculate_roster_value(Tail(roster_list), league_config)

\* sum(get_category_value(p, cat) * games_per_week for p in players)
CategorySum(players, cat, games_per_week) ==
    SumSeq([i \in 1..Len(players) |->
               get_category_value(players[i], cat) * games_per_week])

CategoryImpact(giving, receiving, current_roster, cat, games_per_week) ==
    LET current_total == CategorySum(current_roster, cat, games_per_week)
        losing == CategorySum(giving, cat, games_per_week)
        gaining == CategorySum(receiving, cat, games_per_week)
        post_trade_total == current_total - losing + gaining
        difference == post_trade_total - current_total
        percent_change == IF current_total # 0
                          THEN Frac(difference * 100, current_total)
                          ELSE Zero
    IN  [current |-> RoundDiv(current_total, 100),
         post_trade |-> RoundDiv(post_trade_total, 100),
         difference |-> RoundDiv(difference, 100),
         percent_change |-> FRound(percent_change, 10),
         status |-> IF FLt([n |-> Abs(percent_change.n), d |-> percent_change.d],
                           Frac(3, 1))
                    THEN "neutral"
                    ELSE IF difference > 0 THEN "improved" ELSE "declined"]

analyze_category_impact(giving, receiving, current_roster, league_config) ==
    [cat \in Range(league_config.categories) |->
        CategoryImpact(giving, receiving, current_roster, cat,
                       league_config.games_per_week)]

\* p.get('player_position', '').split(','): the parts as they are.
RawPositions(player) ==
    IF "player_position" \in DOMAIN player THEN player.player_position ELSE <<"">>

CountAt(players, pos) ==
    Cardinality({i \in 1..Len(players) : pos \in Range(RawPositions(players[i]))})

analyze_positional_impact(giving, receiving) ==
    [pos \in Range(specific_positions) |->
        LET giving_count == CountAt(giving, pos)
            receiving_count == CountAt(receiving, pos)
            net_change == receiving_count - giving_count
        IN  [giving |-> giving_count,
             receiving |-> receiving_count,
             net_change |-> net_change,
             status |-> IF net_change > 0 THEN "gaining"
                        ELSE IF net_change < 0 THEN "losing"
                        ELSE "neutral"]]

\* The verdict table with the thresholds included in the upper band.
VerdictInclusive(value_change) ==
    IF value_change >= 2000 THEN <<"ACCEPT", "Strong", "Excellent value gain">>
    ELSE IF value_change >= 1000 THEN <<"ACCEPT", "Moderate", "Good value gain">>
    ELSE IF value_change >= 0 THEN <<"CONSIDER", "Low", "Slight value gain">>
    ELSE IF value_change >= -1000 THEN <<"CONSIDER", "Low", "Marginal value loss">>
    ELSE IF value_change >= -2000 THEN <<"DECLINE", "Moderate", "Notable value loss">>
    ELSE <<"DECLINE", "Strong", "Significant value loss">>

\* verdict, confidence, reason from value_change (hundredths).
Verdict(value_change) ==
    IF value_change > 2000 THEN <<"ACCEPT", "Strong", "Excellent value gain">>
    ELSE IF value_change > 1000 THEN <<"ACCEPT", "Moderate", "Good value gain">>
    ELSE IF value_change > 0 THEN <<"CONSIDER", "Low", "Slight value gain">>
    ELSE IF value_change > -1000 THEN <<"CONSIDER", "Low", "Marginal value loss">>
    ELSE IF value_change > -2000 THEN <<"DECLINE", "Moderate", "Notable value loss">>
    ELSE <<"DECLINE", "Strong", "Significant value loss">>

\* keys: the keys of category_impact in insertion order.
generate_trade_recommendation(value_change, keys, category_impact, positional_impact) ==
    LET improved == Cardinality({c \in DOMAIN category_impact :
                                    category_impact[c].status = "improved"})
        declined == Cardinality({c \in DOMAIN category_impact :
                                    category_impact[c].status = "declined"})
        major_improvements ==
            SelectSeq(keys, LAMBDA c : category_impact[c].percent_change > 150)
        major_declines ==
            SelectSeq(keys, LAMBDA c : category_impact[c].percent_change < -150)
    IN  [verdict |-> Verdict(value_change)[1],
         confidence |-> Verdict(value_change)[2],
         reason |-> Verdict(value_change)[3],
         categories_improved |-> improved,
         categories_declined |-> declined,
         notes |->
             (IF improved > declined
              THEN <<[text |-> "Improves", first |-> improved, second |-> declined]>>
              ELSE IF declined > improved
              THEN <<[text |-> "Declines", first |-> declined, second |-> improved]>>
              ELSE <<>>)
             \o (IF major_improvements # <<>>
                 THEN <<[text |-> "Opportunity", categories |-> major_improvements]>>
                 ELSE <<>>)
             \o (IF major_declines # <<>>
                 THEN <<[text |-> "Risk", categories |-> major_declines]>>
                 ELSE <<>>)]

\* The grade table with a value on a threshold given the lower grade.
TradeRatingExclusive(value_change, percent_change) ==
    LET gt(k) == FLt(Frac(k, 1), percent_change)
    IN  IF gt(15) THEN "A+" ELSE IF gt(10) THEN "A" ELSE IF gt(7) THEN "A-"
        ELSE IF gt(5) THEN "B+" ELSE IF gt(3) THEN "B" ELSE IF gt(1) THEN "B-"
        ELSE IF gt(-1) THEN "C+" ELSE IF gt(-3) THEN "C" ELSE IF gt(-5) THEN "C-"
        ELSE IF gt(-7) THEN "D+" ELSE IF gt(-10) THEN "D" ELSE IF gt(-15) THEN "D-"
        ELSE "F"

calculate_trade_rating(value_change, percent_change) ==
    LET ge(k) == FLe(Frac(k, 1), percent_change)
    IN  IF ge(15) THEN "A+" ELSE IF ge(10) THEN "A" ELSE IF ge(7) THEN "A-"
        ELSE IF ge(5) THEN "B+" ELSE IF ge(3) THEN "B" ELSE IF ge(1) THEN "B-"
        ELSE IF ge(-1) THEN "C+" ELSE IF ge(-3) THEN "C" ELSE IF ge(-5) THEN "C-"
        ELSE IF ge(-7) THEN "D+" ELSE IF ge(-10) THEN "D" ELSE IF ge(-15) THEN "D-"
        ELSE "F"

(***************************************************************************)
(* The two step tables of the trade analyzer, called on their own.         *)
(***************************************************************************)
\* Trades whose impact analyses accompany the value_change.
TradeSamples ==
    {[giving |-> <<>>, receiving |-> <<>>, current_roster |-> <<>>,
      categories |-> <<>>],
     [giving |-> <<PlayerA>>, receiving |-> <<PlayerD>>,
      current_roster |-> <<PlayerA, PlayerB>>, categories |-> <<"PTS", "TO">>],
     [giving |-> <<PlayerD>>, receiving |-> <<PlayerC>>,
      current_roster |-> <<PlayerD, PlayerE>>,
      categories |-> <<"BLK", "PTS", "TO">>]}

SampleConfig(t) == [categories |-> t.categories, games_per_week |-> 333]

ValueChanges == (-MaxValueChange)..MaxValueChange

PercentChanges == (-MaxPercentChange)..MaxPercentChange

RatingValueChanges == {-2500, 0, 2500}

InitTradeRecommendation ==
    /\ pc = "ready"
    /\ \E v \in ValueChanges, t \in TradeSamples :
          args = [fn |-> "generate_trade_recommendation",
                  value_change |-> v,
                  keys |-> t.categories,
                  category_impact |->
                      analyze_category_impact(t.giving, t.receiving, t.current_roster,
                                              SampleConfig(t)),
                  positional_impact |->
                      analyze_positional_impact(t.giving, t.receiving)]
    /\ roster = <<>>
    /\ locals = NoLocals
    /\ result = NoResult

InitTradeRating ==
    /\ pc = "ready"
    /\ \E v \in RatingValueChanges, p \in PercentChanges :
          args = [fn |-> "calculate_trade_rating",
                  value_change |-> v,
                  percent_change |-> Frac(p, 100)]
    /\ roster = <<>>
    /\ locals = NoLocals
    /\ result = NoResult

GenerateTradeRecommendation ==
    /\ pc = "ready"
    /\ args.fn = "generate_trade_recommendation"
    /\ result' = generate_trade_recommendation(args.value_change, args.keys,
                                               args.category_impact,
                                               args.positional_impact)
    /\ pc' = "done"
    /\ UNCHANGED <<args, roster, locals>>

CalculateTradeRating ==
    /\ pc = "ready"
    /\ args.fn = "calculate_trade_rating"
    /\ result' = [rating |-> calculate_trade_rating(args.value_change,
                                                    args.percent_change)]
    /\ pc' = "done"
    /\ UNCHANGED <<args, roster, locals>>

InitTradeTables == InitTradeRecommendation \/ InitTradeRating

NextTradeTables == GenerateTradeRecommendation \/ CalculateTradeRating

SpecTradeTables == InitTradeTables /\ [][NextTradeTables]_vars

(***************************************************************************)
(* Properties of the trade tables.                                         *)
(***************************************************************************)
RecommendationDone == pc = "done" /\ args.fn = "generate_trade_recommendation"

RatingDone == pc = "done" /\ args.fn = "calculate_trade_rating"

\* C13: (verdict, confidence) follow the strict threshold table on
\* value_change: > 20 ACCEPT/Strong, > 10 ACCEPT/Moderate, > 0 CONSIDER/Low,
\* > -10 CONSIDER/Low, > -20 DECLINE/Moderate, otherwise DECLINE/Strong;
\* exactly 20 is ACCEPT/Moderate, exactly -10 DECLINE/Moderate, exactly -20
\* DECLINE/Strong; the same value_change gives the same verdict with any
\* category and positional impact.
C13_VerdictThresholdTable ==
    RecommendationDone =>
        LET v == args.value_change
            got == <<result.verdict, result.confidence>>
        IN  /\ (v > 2000) => got = <<"ACCEPT", "Strong">>
            /\ (v > 1000 /\ v <= 2000) => got = <<"ACCEPT", "Moderate">>
            /\ (v > -1000 /\ v <= 1000) => got = <<"CONSIDER", "Low">>
            /\ (v > -2000 /\ v <= -1000) => got = <<"DECLINE", "Moderate">>
            /\ (v <= -2000) => got = <<"DECLINE", "Strong">>
            /\ \A t \in TradeSamples :
                   LET other ==
                           generate_trade_recommendation(
                               v, t.categories,
                               analyze_category_impact(t.giving, t.receiving,
                                                       t.current_roster, SampleConfig(t)),
                               analyze_positional_impact(t.giving, t.receiving))
                   IN  <<other.verdict, other.confidence>> = got

\* value_change exactly 20 with a declined category: ACCEPT/Moderate.
C13_Witness ==
    /\ RecommendationDone
    /\ args.value_change = 2000
    /\ result.verdict = "ACCEPT"
    /\ result.confidence = "Moderate"
    /\ result.categories_declined > 0

GradeOrder ==
    <<"F", "D-", "D", "D+", "C-", "C", "C+", "B-", "B", "B+", "A-", "A", "A+">>

GradeRank(g) == CHOOSE i \in 1..Len(GradeOrder) : GradeOrder[i] = g

\* The documented thresholds, in percent.
RatingThresholds == {-15, -10, -7, -5, -3, -1, 1, 3, 5, 7, 10, 15}

\* The grades given at the thresholds and below the lowest one.
GradesReturned ==
    {calculate_trade_rating(0, Frac(k, 1)) : k \in RatingThresholds \cup {-16}}

\* The grade is the number of thresholds at or below percent_change, counted
\* from F; it does not go down when percent_change goes up by 0.01, and it
\* is the same for every value_change.
RatingIsMonotoneStepTable ==
    LET p == args.percent_change
    IN  /\ GradeRank(result.rating)
               = 1 + Cardinality({k \in RatingThresholds : FLe(Frac(k, 1), p)})
        /\ GradeRank(calculate_trade_rating(args.value_change,
                                            FSub(p, Frac(1, 100))))
               <= GradeRank(result.rating)
        /\ \A v \in RatingValueChanges :
               calculate_trade_rating(v, p) = result.rating

\* C14 as stated: the table has exactly twelve bands.
C14_Original_TwelveBands ==
    RatingDone =>
        /\ RatingIsMonotoneStepTable
        /\ Cardinality(GradesReturned) = 12

\* C14 (amended): calculate_trade_rating is monotone non-decreasing in
\* percent_change over F < D- < ... < A+, has thirteen bands (the thirteen
\* grades) separated by the twelve thresholds +-1, +-3, +-5, +-7, +-10,
\* +-15, depends on percent_change only, and a value on a threshold gets
\* the higher grade.
C14_ThirteenBandStepTable ==
    RatingDone =>
        /\ RatingIsMonotoneStepTable
        /\ Cardinality(GradesReturned) = 13
        /\ GradesReturned = Range(GradeOrder)

\* percent_change exactly -1 with a negative value_change: C+.
C14_Witness ==
    /\ RatingDone
    /\ args.percent_change = Frac(-1, 1)
    /\ args.value_change < 0
    /\ result.rating = "C+"

(***************************************************************************)
(* analyze_trade and compare_trades.                                       *)
(***************************************************************************)
PlayerIds(players) == {players[i].player_id : i \in 1..Len(players)}

\* [p for p in current_roster if p['player_id'] not in giving ids], extended
\* by receiving_projections: a new list.
PostTradeRoster(giving, receiving, current_roster) ==
    SelectSeq(current_roster, LAMBDA p : p.player_id \notin PlayerIds(giving))
    \o receiving

\* (value_change / current_value * 100) if current_value > 0 else 0
PercentChange(value_change, current_value) ==
    IF current_value > 0 THEN Frac(value_change * 100, current_value) ELSE Zero

SummaryOf(players) ==
    [i \in 1..Len(players) |->
        [player_id |-> players[i].player_id,
         player_name |-> IF "player_name" \in DOMAIN players[i]
                         THEN players[i].player_name ELSE "Unknown"]]

\* The local variables of analyze_trade before its return statement.
TradeLocals(giving, receiving, current_roster, league_config) ==
    LET current_value == calculate_roster_value(current_roster, league_config)
        post_trade_roster == PostTradeRoster(giving, receiving, current_roster)
        post_trade_value == calculate_roster_value(post_trade_roster, league_config)
        value_change == post_trade_value - current_value
    IN  [current_value |-> current_value,
         post_trade_roster |-> post_trade_roster,
         post_trade_value |-> post_trade_value,
         value_change |-> value_change,
         percent_change |-> PercentChange(value_change, current_value)]

analyze_trade(giving, receiving, current_roster, league_config) ==
    LET l == TradeLocals(giving, receiving, current_roster, league_config)
        category_impact ==
            analyze_category_impact(giving, receiving, current_roster, league_config)
        positional_impact == analyze_positional_impact(giving, receiving)
    IN  [trade_analysis |->
            [trade_summary |-> [giving |-> SummaryOf(giving),
                                receiving |-> SummaryOf(receiving)],
             value_analysis |->
                 [current_roster_value |-> RoundDiv(l.current_value, 10),
                  post_trade_value |-> RoundDiv(l.post_trade_value, 10),
                  value_change |-> RoundDiv(l.value_change, 10),
                  percent_change |-> FRound(l.percent_change, 10)],
             category_impact |-> category_impact,
             positional_impact |-> positional_impact,
             recommendation |->
                 generate_trade_recommendation(l.value_change, league_config.categories,
                                               category_impact, positional_impact),
             trade_rating |-> calculate_trade_rating(l.value_change, l.percent_change)]]

\* Players of the pool in ascending id order, at most n of them.
AscendingLists(n) ==
    {r \in Arrangements(Pool, n) :
        \A i, j \in 1..Len(r) : i < j => r[i].player_id < r[j].player_id}

\* The two sides of a trade: no player on both.
Trades ==
    {<<g, r>> \in AscendingLists(MaxTraded) \X AscendingLists(MaxTraded) :
        PlayerIds(g) \cap PlayerIds(r) = {}}

\* league['categories'] of the leagues traded in.
TradeCategoryLists ==
    {<<>>, <<"PTS">>, <<"TO">>, <<"PTS", "TO", "FG_PCT">>, <<"REB", "XYZ">>,
     <<"PTS", "BLK", "STL">>}

LeagueConfigs ==
    {[scoring_type |-> "roto", categories |-> c, games_per_week |-> g] :
        c \in TradeCategoryLists, g \in GamesPerWeek}

InitAnalyzeTrade ==
    /\ pc = "ready"
    /\ \E t \in Trades, r \in ScoringRosters, cfg \in LeagueConfigs :
          \* a received player is on another team's roster
          /\ PlayerIds(t[2]) \cap PlayerIds(r) = {}
          /\ args = [fn |-> "analyze_trade",
                     giving_projections |-> t[1],
                     receiving_projections |-> t[2],
                     current_roster |-> r,
                     league_config |-> cfg]
          /\ roster = r
    /\ locals = NoLocals
    /\ result = NoResult

AnalyzeTrade ==
    /\ pc = "ready"
    /\ args.fn = "analyze_trade"
    /\ locals' = TradeLocals(args.giving_projections, args.receiving_projections,
                             roster, args.league_config)
    /\ result' = analyze_trade(args.giving_projections, args.receiving_projections,
                               roster, args.league_config)
    /\ pc' = "done"
    /\ UNCHANGED <<args, roster>>

NextAnalyzeTrade == AnalyzeTrade

SpecAnalyzeTrade == InitAnalyzeTrade /\ [][NextAnalyzeTrade]_vars

(***************************************************************************)
(* Properties of analyze_trade.                                            *)
(***************************************************************************)
AnalyzeDone == pc = "done" /\ args.fn = "analyze_trade"

\* C15: the post-trade roster is the current roster minus every player whose
\* id is in giving, plus all receiving players; value_change is the value of
\* the post-trade roster minus the value of the current roster; and
\* percent_change = value_change / current_value x 100 for every non-zero
\* current_value, a negative one included, being 0 only when current_value
\* is 0.
C15_PercentChangeForNonZeroValue ==
    AnalyzeDone =>
        LET cur == args.current_roster
            kept == {i \in 1..Len(cur) :
                        cur[i].player_id \notin PlayerIds(args.giving_projections)}
            post == locals.post_trade_roster
            nkept == Cardinality(kept)
        IN  /\ Len(post) = nkept + Len(args.receiving_projections)
            /\ SubSeq(post, 1, nkept)
                   = SelectSeq(cur, LAMBDA p :
                                   p.player_id \notin PlayerIds(args.giving_projections))
            /\ \A i \in 1..Len(args.receiving_projections) :
                   post[nkept + i] = args.receiving_projections[i]
            /\ locals.value_change
                   = calculate_roster_value(post, args.league_config)
                     - calculate_roster_value(cur, args.league_config)
            /\ locals.current_value = calculate_roster_value(cur, args.league_config)
            /\ IF locals.current_value # 0
               THEN locals.percent_change
                        = Frac(locals.value_change * 100, locals.current_value)
               ELSE locals.percent_change = Zero

(***************************************************************************)
(* compare_trades                                                          *)
(***************************************************************************)
\* The caller's roster with the trade applied to it.
RosterWithTradeApplied(giving, receiving, current_roster) ==
    PostTradeRoster(giving, receiving, current_roster)

\* The caller's roster after analyze_trade returns: the post-trade roster is
\* a list of its own, current_roster is only read.
RosterAfterAnalyzeTrade(giving, receiving, current_roster) == current_roster

ComparisonEntry(offer, analysis) ==
    [offer_id |-> IF "offer_id" \in DOMAIN offer THEN offer.offer_id ELSE "unknown",
     value_change |-> analysis.trade_analysis.value_analysis.value_change,
     rating |-> analysis.trade_analysis.trade_rating,
     verdict |-> analysis.trade_analysis.recommendation.verdict,
     analysis |-> analysis.trade_analysis]

\* The loop over trade_offers: the comparisons so far and the roster object
\* each call is given.
RECURSIVE CompareLoop(_, _, _, _)
CompareLoop(trade_offers, current_roster, league_config, comparisons) ==
    IF trade_offers = <<>>
    THEN [comparisons |-> comparisons, current_roster |-> current_roster]
    ELSE LET offer == Head(trade_offers)
             analysis == analyze_trade(offer.giving, offer.receiving,
                                       current_roster, league_config)
         IN  CompareLoop(Tail(trade_offers),
                         RosterAfterAnalyzeTrade(offer.giving, offer.receiving,
                                                 current_roster),
                         league_config,
                         Append(comparisons, ComparisonEntry(offer, analysis)))

\* comparisons.sort(key=lambda x: x['value_change'], reverse=True): stable.
RECURSIVE InsertByValueChange(_, _)
InsertByValueChange(x, s) ==
    IF s = <<>> THEN <<x>>
    ELSE IF Head(s).value_change >= x.value_change
         THEN <<Head(s)>> \o InsertByValueChange(x, Tail(s))
         ELSE <<x>> \o s

RECURSIVE SortByValueChange(_)
SortByValueChange(s) ==
    IF s = <<>> THEN <<>>
    ELSE InsertByValueChange(s[Len(s)], SortByValueChange(SubSeq(s, 1, Len(s) - 1)))

compare_trades(trade_offers, current_roster, league_config) ==
    SortByValueChange(
        CompareLoop(trade_offers, current_roster, league_config, <<>>).comparisons)

\* The offers on the table; the third carries no offer_id.
OfferPool ==
    {[offer_id |-> "o1", giving |-> <<PlayerA>>, receiving |-> <<PlayerD>>],
     [offer_id |-> "o2", giving |-> <<PlayerC>>, receiving |-> <<PlayerE>>],
     [giving |-> <<>>, receiving |-> <<PlayerE>>],
     [offer_id |-> "o4", giving |-> <<PlayerA, PlayerB>>, receiving |-> <<PlayerC>>],
     [offer_id |-> "o5", giving |-> <<PlayerB>>, receiving |-> <<>>]}

OfferLists == Arrangements(OfferPool, MaxOffers)

InitCompareTrades ==
    /\ pc = "ready"
    /\ \E o \in OfferLists, r \in ScoringRosters, cfg \in LeagueConfigs :
          \* a received player is on another team's roster
          /\ \A i \in 1..Len(o) : PlayerIds(o[i].receiving) \cap PlayerIds(r) = {}
          /\ args = [fn |-> "compare_trades",
                     trade_offers |-> o,
                     current_roster |-> r,
                     league_config |-> cfg]
          /\ roster = r
    /\ locals = NoLocals
    /\ result = NoResult

CompareTrades ==
    /\ pc = "ready"
    /\ args.fn = "compare_trades"
    /\ roster' = CompareLoop(args.trade_offers, roster, args.league_config,
                             <<>>).current_roster
    /\ result' = [comparisons |->
                     compare_trades(args.trade_offers, roster, args.league_config)]
    /\ pc' = "done"
    /\ UNCHANGED <<args, locals>>

NextCompareTrades == CompareTrades

SpecCompareTrades == InitCompareTrades /\ [][NextCompareTrades]_vars

(***************************************************************************)
(* Properties of compare_trades.                                           *)
(***************************************************************************)
CompareDone == pc = "done" /\ args.fn = "compare_trades"

\* What analyze_trade returns for one offer alone against the roster passed in.
AnalysisAlone(offer) ==
    analyze_trade(offer.giving, offer.receiving, args.current_roster,
                  args.league_config).trade_analysis

IndexPermutations(n) == {q \in [1..n -> 1..n] : \A i, j \in 1..n : i # j => q[i] # q[j]}

\* C16: one entry per offer, each entry's analysis being what analyze_trade
\* returns for that offer alone against the roster passed in (whatever the
\* other offers and their order); entries in non-increasing value_change;
\* the roster is the same after the call as before.
C16_OffersAreIndependentAndRanked ==
    CompareDone =>
        LET offers == args.trade_offers
            c == result.comparisons
        IN  /\ Len(c) = Len(offers)
            /\ \E q \in IndexPermutations(Len(offers)) :
                   \A i \in 1..Len(c) :
                       /\ c[i].analysis = AnalysisAlone(offers[q[i]])
                       /\ c[i].value_change
                              = AnalysisAlone(offers[q[i]]).value_analysis.value_change
                       /\ c[i].offer_id = IF "offer_id" \in DOMAIN offers[q[i]]
                                          THEN offers[q[i]].offer_id ELSE "unknown"
            /\ \A i, j \in 1..Len(c) : i < j => c[i].value_change >= c[j].value_change
            /\ roster = args.current_roster

\* Two offers that both give away rostered players, ranked in the reverse of
\* the order they were given in.
C16_Witness ==
    /\ CompareDone
    /\ Len(args.trade_offers) = 2
    /\ \A i \in 1..2 :
           /\ args.trade_offers[i].giving # <<>>
           /\ PlayerIds(args.trade_offers[i].giving) \subseteq PlayerIds(args.current_roster)
    /\ result.comparisons[1].offer_id = args.trade_offers[2].offer_id
    /\ result.comparisons[1].value_change > result.comparisons[2].value_change

(***************************************************************************)
(* Streaming optimizer: dbb2_streaming_optimizer.py                        *)
(*                                                                         *)
(* Weights are in tenths, so the values are in hundredths; the reported    *)
(* streaming_value is in tenths.                                           *)
(***************************************************************************)
streaming_category_mapping ==
    ("PTS" :> <<"points_per_game", 10>>) @@ ("REB" :> <<"rebounds_per_game", 15>>)
    @@ ("AST" :> <<"assists_per_game", 15>>) @@ ("STL" :> <<"steals_per_game", 40>>)
    @@ ("BLK" :> <<"blocks_per_game", 40>>) @@ ("3PM" :> <<"three_pointers_made", 30>>)
    @@ ("FG_PCT" :> <<"field_goal_percentage", 500>>)
    @@ ("FT_PCT" :> <<"free_throw_percentage", 300>>)

calculate_base_value(player) ==
    Get(player, "points_per_game") * 5
    + Get(player, "rebounds_per_game") * 15
    + Get(player, "assists_per_game") * 15
    + Get(player, "steals_per_game") * 40
    + Get(player, "blocks_per_game") * 40
    + Get(player, "three_pointers_made") * 30

\* The loop over league_needs: doubled weight for each needed category.
NeedsValue(player, league_needs) ==
    SumSeq([i \in 1..Len(league_needs) |->
               IF league_needs[i] \in DOMAIN streaming_category_mapping
               THEN Get(player, streaming_category_mapping[league_needs[i]][1])
                    * streaming_category_mapping[league_needs[i]][2] * 2
               ELSE 0])

calculate_streaming_value(player, league_needs, games_remaining) ==
    (NeedsValue(player, league_needs)
     + Get(player, "points_per_game") * 5
     + Get(player, "rebounds_per_game") * 8
     + Get(player, "assists_per_game") * 8)
    * games_remaining

NeedCodes == {"PTS", "AST", "STL", "TO"}

NeedLists == Arrangements(NeedCodes, MaxNeeds)

InitStreamingValue ==
    /\ pc = "ready"
    /\ \E p \in Pool, n \in NeedLists, g \in 0..MaxGames :
          args = [fn |-> "calculate_streaming_value",
                  player |-> p,
                  league_needs |-> n,
                  games_remaining |-> g]
    /\ roster = <<>>
    /\ locals = NoLocals
    /\ result = NoResult

CalculateStreamingValue ==
    /\ pc = "ready"
    /\ args.fn = "calculate_streaming_value"
    /\ result' = [value |-> calculate_streaming_value(args.player, args.league_needs,
                                                      args.games_remaining)]
    /\ pc' = "done"
    /\ UNCHANGED <<args, roster, locals>>

NextStreamingValue == CalculateStreamingValue

SpecStreamingValue == InitStreamingValue /\ [][NextStreamingValue]_vars

\* C17: calculate_streaming_value(player, needs, g) is (the sum over the
\* needed categories of stat x weight x 2.0, plus base_value(player)) x g,
\* base_value being calculate_base_value, the weighted sum behind a rostered
\* player's remaining value; with no needs it is calculate_base_value x g.
C17_StreamingValueUsesBaseValue ==
    (pc = "done" /\ args.fn = "calculate_streaming_value") =>
        /\ result.value
               = (NeedsValue(args.player, args.league_needs)
                  + calculate_base_value(args.player)) * args.games_remaining
        /\ args.league_needs = <<>> =>
               result.value = calculate_base_value(args.player) * args.games_remaining

(***************************************************************************)
(* get_streaming_candidates and generate_streaming_suggestions.            *)
(***************************************************************************)
\* games_remaining_this_week.get(player_id, default) if the dict is given and
\* not empty, else default.
GamesLeft(games_remaining_this_week, player_id, default) ==
    IF player_id \in DOMAIN games_remaining_this_week
    THEN games_remaining_this_week[player_id]
    ELSE default

Candidate(player, league_needs, games_remaining_this_week) ==
    LET games_left == GamesLeft(games_remaining_this_week, player.player_id, 3)
        value == calculate_streaming_value(player, league_needs, games_left)
    IN  [player_id |-> player.player_id,
         player_name |-> IF "player_name" \in DOMAIN player
                         THEN player.player_name ELSE "Unknown",
         team |-> IF "team" \in DOMAIN player THEN player.team ELSE "",
         games_remaining |-> games_left,
         streaming_value |-> RoundDiv(value, 10),
         per_game_value |-> IF games_left > 0 THEN RoundDiv(value, 10 * games_left)
                            ELSE 0,
         projection |-> player]

\* streaming_candidates.sort(key=streaming_value, reverse=True): stable.
RECURSIVE InsertByStreamingValue(_, _)
InsertByStreamingValue(x, s) ==
    IF s = <<>> THEN <<x>>
    ELSE IF Head(s).streaming_value >= x.streaming_value
         THEN <<Head(s)>> \o InsertByStreamingValue(x, Tail(s))
         ELSE <<x>> \o s

RECURSIVE SortByStreamingValue(_)
SortByStreamingValue(s) ==
    IF s = <<>> THEN <<>>
    ELSE InsertByStreamingValue(s[Len(s)],
                                SortByStreamingValue(SubSeq(s, 1, Len(s) - 1)))

\* list[:k]
FirstN(list, k) == SubSeq(list, 1, IF Len(list) < k THEN Len(list) ELSE k)

\* roster_player['games_remaining'] = ...; roster_player['remaining_value'] = ...
WithRemainingValue(roster_player, games_remaining_this_week) ==
    LET games_left == GamesLeft(games_remaining_this_week, roster_player.player_id, 2)
    IN  [k \in DOMAIN roster_player \cup {"games_remaining", "remaining_value"} |->
            IF k = "games_remaining" THEN games_left
            ELSE IF k = "remaining_value"
            THEN calculate_base_value(roster_player) * games_left
            ELSE roster_player[k]]

\* roster_players.sort(key=remaining_value): ascending, stable.
RECURSIVE InsertByRemainingValue(_, _)
InsertByRemainingValue(x, s) ==
    IF s = <<>> THEN <<x>>
    ELSE IF Head(s).remaining_value <= x.remaining_value
         THEN <<Head(s)>> \o InsertByRemainingValue(x, Tail(s))
         ELSE <<x>> \o s

RECURSIVE SortByRemainingValue(_)
SortByRemainingValue(s) ==
    IF s = <<>> THEN <<>>
    ELSE InsertByRemainingValue(s[Len(s)],
                                SortByRemainingValue(SubSeq(s, 1, Len(s) - 1)))

\* The caller's roster_players list after the call.
RosterAfterSuggestions(roster_players, games_remaining_this_week) ==
    SortByRemainingValue([i \in 1..Len(roster_players) |->
        WithRemainingValue(roster_players[i], games_remaining_this_week)])

\* candidate['streaming_value'] > roster_player['remaining_value'] * 1.5
WorthStreaming(candidate, roster_player) ==
    candidate.streaming_value * 20 > roster_player.remaining_value * 3

Suggestion(candidate, roster_player) ==
    [type |-> "stream",
     drop |-> [player_id |-> roster_player.player_id,
               player_name |-> IF "player_name" \in DOMAIN roster_player
                               THEN roster_player.player_name ELSE "Unknown",
               games_remaining |-> roster_player.games_remaining,
               remaining_value |-> RoundDiv(roster_player.remaining_value, 10)],
     add |-> [player_id |-> candidate.player_id,
              player_name |-> candidate.player_name,
              games_remaining |-> candidate.games_remaining,
              streaming_value |-> candidate.streaming_value],
     value_improvement |->
         RoundDiv(candidate.streaming_value * 10 - roster_player.remaining_value, 10)]

\* The inner loop without its break: every drop target the candidate is worth.
RECURSIVE SuggestionsForEveryTarget(_, _)
SuggestionsForEveryTarget(candidate, targets) ==
    IF targets = <<>> THEN <<>>
    ELSE (IF WorthStreaming(candidate, Head(targets))
          THEN <<Suggestion(candidate, Head(targets))>> ELSE <<>>)
         \o SuggestionsForEveryTarget(candidate, Tail(targets))

\* The inner loop: the first of the drop targets the candidate is worth.
RECURSIVE SuggestionsFor(_, _)
SuggestionsFor(candidate, targets) ==
    IF targets = <<>> THEN <<>>
    ELSE IF WorthStreaming(candidate, Head(targets))
         THEN <<Suggestion(candidate, Head(targets))>>
         ELSE SuggestionsFor(candidate, Tail(targets))

\* The outer loop over the candidates.
RECURSIVE MatchCandidates(_, _)
MatchCandidates(candidates, targets) ==
    IF candidates = <<>> THEN <<>>
    ELSE SuggestionsFor(Head(candidates), targets)
         \o MatchCandidates(Tail(candidates), targets)

\* The suggestions returned without a cap.
AllSuggestions(suggestions) == suggestions

\* suggestions[:5]
TopSuggestions(suggestions) == FirstN(suggestions, 5)

generate_streaming_suggestions(streaming_candidates, roster_players, games_remaining_this_week) ==
    TopSuggestions(
        MatchCandidates(FirstN(streaming_candidates, 10),
                        FirstN(RosterAfterSuggestions(roster_players,
                                                      games_remaining_this_week), 5)))

get_streaming_candidates(available_players, roster_players, league_needs, games_remaining_this_week) ==
    LET streaming_candidates ==
            SortByStreamingValue([i \in 1..Len(available_players) |->
                Candidate(available_players[i], league_needs,
                          games_remaining_this_week)])
    IN  [league_needs |-> league_needs,
         streaming_candidates |-> FirstN(streaming_candidates, 20),
         streaming_suggestions |->
             generate_streaming_suggestions(FirstN(streaming_candidates, 20),
                                            roster_players,
                                            games_remaining_this_week)]

\* Free agents: projection records of players on no roster of the league.
FreeAgent(id, name, points, rebounds) ==
    [player_id |-> id, player_name |-> name, points_per_game |-> points,
     rebounds_per_game |-> rebounds]

FreeAgentOrders ==
    {<<FreeAgent(11, "F1", 300, 101), FreeAgent(12, "F2", 250, 0),
       FreeAgent(13, "F3", 200, 52), FreeAgent(14, "F4", 150, 0),
       FreeAgent(15, "F5", 120, 33), FreeAgent(16, "F6", 100, 0),
       FreeAgent(17, "F7", 80, 0), FreeAgent(18, "F8", 10, 0)>>,
     <<FreeAgent(14, "F4", 150, 0), FreeAgent(18, "F8", 10, 0),
       FreeAgent(11, "F1", 300, 101), FreeAgent(16, "F6", 100, 0),
       FreeAgent(12, "F2", 250, 0), FreeAgent(13, "F3", 200, 52),
       FreeAgent(15, "F5", 120, 33), FreeAgent(17, "F7", 80, 0)>>}

AvailableLists ==
    {FirstN(o, k) : o \in FreeAgentOrders, k \in 0..MaxAvailable}

\* games_remaining_this_week: not given (None), or player_id -> games.
GamesRemainingDicts ==
    {<<>>,
     (11 :> MaxGames) @@ (14 :> 0) @@ (1 :> 1) @@ (3 :> 0),
     (12 :> 1) @@ (18 :> MaxGames) @@ (5 :> MaxGames) @@ (4 :> 1)}

InitStreamingCandidates ==
    /\ pc = "ready"
    /\ \E a \in AvailableLists, r \in ScoringRosters, n \in NeedLists,
          g \in GamesRemainingDicts :
          /\ args = [fn |-> "get_streaming_candidates",
                     available_players |-> a,
                     roster_players |-> r,
                     league_needs |-> n,
                     games_remaining_this_week |-> g]
          /\ roster = r
    /\ locals = NoLocals
    /\ result = NoResult

GetStreamingCandidates ==
    /\ pc = "ready"
    /\ args.fn = "get_streaming_candidates"
    /\ roster' = RosterAfterSuggestions(roster, args.games_remaining_this_week)
    /\ result' = get_streaming_candidates(args.available_players, roster,
                                          args.league_needs,
                                          args.games_remaining_this_week)
    /\ pc' = "done"
    /\ UNCHANGED <<args, locals>>

NextStreaming == GetStreamingCandidates

SpecStreaming == InitStreamingCandidates /\ [][NextStreaming]_vars

(***************************************************************************)
(* Properties of the streaming suggestions.                                *)
(***************************************************************************)
StreamingDone == pc = "done" /\ args.fn = "get_streaming_candidates"

\* base_value x the player's own games remaining (2 when not listed), for a
\* player of the roster passed in.
RemainingValueOf(p) ==
    calculate_base_value(p)
    * (IF p.player_id \in DOMAIN args.games_remaining_this_week
       THEN args.games_remaining_this_week[p.player_id] ELSE 2)

RosterPlayer(id) ==
    CHOOSE p \in Range(args.roster_players) : p.player_id = id

\* The candidate's reported streaming value (tenths) exceeds 1.5 x the
\* remaining value (hundredths).
Exceeds(streaming_value, remaining_value) ==
    streaming_value * 20 > remaining_value * 3

\* The position of a player among the candidates.
CandidateIndex(id) ==
    CHOOSE k \in 1..Len(result.streaming_candidates) :
        result.streaming_candidates[k].player_id = id

\* C18: at most 5 add/drop pairs; each candidate is the add of at most one
\* pair; in every pair the candidate's streaming value exceeds 1.5 x the
\* dropped player's remaining value, and the dropped player is the rostered
\* player of lowest remaining value for which that holds; the candidates are
\* in descending streaming-value order and the pairs follow that order.
C18_StreamingSuggestions ==
    StreamingDone =>
        LET s == result.streaming_suggestions
            c == result.streaming_candidates
        IN  /\ Len(s) <= 5
            /\ \A i, j \in 1..Len(c) : i < j => c[i].streaming_value >= c[j].streaming_value
            /\ \A i \in 1..Len(s) :
                   /\ \E k \in 1..Len(c) :
                          /\ c[k].player_id = s[i].add.player_id
                          /\ c[k].streaming_value = s[i].add.streaming_value
                   /\ s[i].drop.player_id \in PlayerIds(args.roster_players)
                   /\ Exceeds(s[i].add.streaming_value,
                              RemainingValueOf(RosterPlayer(s[i].drop.player_id)))
                   /\ \A q \in Range(args.roster_players) :
                          Exceeds(s[i].add.streaming_value, RemainingValueOf(q))
                              => RemainingValueOf(RosterPlayer(s[i].drop.player_id))
                                     <= RemainingValueOf(q)
            /\ \A i, j \in 1..Len(s) :
                   i < j => CandidateIndex(s[i].add.player_id)
                                < CandidateIndex(s[j].add.player_id)

\* More than five candidates are worth a drop, given out of value order:
\* five pairs come back, and the sixth such candidate has none.
C18_Witness ==
    /\ StreamingDone
    /\ Len(result.streaming_suggestions) = 5
    /\ args.available_players[1].player_id = 14
    /\ \E k \in 6..Len(result.streaming_candidates) :
           /\ \E q \in Range(args.roster_players) :
                  Exceeds(result.streaming_candidates[k].streaming_value,
                          RemainingValueOf(q))
           /\ \A i \in 1..5 :
                  result.streaming_suggestions[i].add.player_id
                      # result.streaming_candidates[k].player_id

(***************************************************************************)
(* Opponent analyzer: dbb2_opponent_analyzer.py                            *)
(*                                                                         *)
(* Fantasy points are in tenths, winning_probability in tenths of a        *)
(* percent.  A strategy text is modelled by its opening words.             *)
(***************************************************************************)
\* league_config.get(key, default)
ConfigGet(league_config, key, default) ==
    IF key \in DOMAIN league_config THEN league_config[key] ELSE default

IsRaised(value) == "raised" \in DOMAIN value

CategoriesOfStatus(list, status) ==
    LET picked == SelectSeq(list, LAMBDA c : c.status = status)
    IN  [i \in 1..Len(picked) |-> picked[i].category]

generate_category_strategies(matchup) ==
    LET close_losing == CategoriesOfStatus(matchup.close_categories, "loss")
        close_winning == CategoriesOfStatus(matchup.close_categories, "win")
        blowout_losses == CategoriesOfStatus(matchup.blowout_categories, "loss")
        blowout_wins == CategoriesOfStatus(matchup.blowout_categories, "win")
        win_prob == matchup.winning_probability
        note(text, cats) == IF cats # <<>> THEN <<[text |-> text, categories |-> cats]>>
                            ELSE <<>>
    IN  note("Focus on close categories you're losing", close_losing)
        \o note("Protect narrow leads in", close_winning)
        \o note("Consider punting", blowout_losses)
        \o note("Dominating in", blowout_wins)
        \o <<[text |-> IF win_prob >= 700 THEN "Strong advantage"
                       ELSE IF win_prob >= 550 THEN "Slight advantage"
                       ELSE IF win_prob >= 450 THEN "Very close matchup"
                       ELSE IF win_prob >= 300 THEN "Need to gain ground"
                       ELSE "Significant deficit"]>>
        \o (IF matchup.close_categories # <<>>
            THEN <<[text |-> "Consider streaming"]>> ELSE <<>>)

analyze_h2h_categories_matchup(my_projections, opponent_projections, league_config) ==
    LET matchup ==
            calculate_h2h_categories(my_projections, opponent_projections,
                                     ConfigGet(league_config, "categories", <<>>),
                                     ConfigGet(league_config, "games_per_week", 333))
    IN  IF IsRaised(matchup) THEN matchup
        ELSE [matchup_analysis |->
                 matchup @@ [strategy_recommendations |->
                                 generate_category_strategies(matchup)]]

\* max(my_points, opponent_points) > 0 here.
generate_points_strategies(my_points, opponent_points, point_diff) ==
    LET larger == IF my_points > opponent_points THEN my_points ELSE opponent_points
        diff_percent == Frac(Abs(point_diff) * 100, larger)
        atleast(k) == FLe(Frac(k, 1), diff_percent)
        texts(list) == [i \in 1..Len(list) |-> [text |-> list[i]]]
    IN  texts((IF point_diff > 0
               THEN IF atleast(20) THEN <<"Large lead", "Avoid risky adds">>
                    ELSE IF atleast(10) THEN <<"Solid lead", "Monitor opponent's moves">>
                    ELSE <<"Close lead", "Look for high-upside streaming options">>
               ELSE IF atleast(20)
                    THEN <<"Significant deficit", "Target high-ceiling players",
                           "Consider risky but high-upside adds">>
                    ELSE IF atleast(10)
                    THEN <<"Behind but catchable", "Focus on players with heavy schedules">>
                    ELSE <<"Very close", "Monitor daily adds/drops closely">>)
              \o <<"Consider players with 4+ games this week">>)

analyze_h2h_points_matchup(my_projections, opponent_projections, league_config) ==
    LET points_values == ConfigGet(league_config, "points_values", <<>>)
        games_per_week == ConfigGet(league_config, "games_per_week", 333)
        my_results == calculate_h2h_points(my_projections, points_values, games_per_week)
        opponent_results ==
            calculate_h2h_points(opponent_projections, points_values, games_per_week)
        my_points == my_results.total_fantasy_points
        opponent_points == opponent_results.total_fantasy_points
        point_diff == my_points - opponent_points
        fifty == Frac(50, 1)
        gain == FAdd(fifty, Frac(point_diff * 100, opponent_points))
        loss == FSub(fifty, Frac(Abs(point_diff) * 100, my_points))
        win_prob == IF my_points > opponent_points
                    THEN IF FLt(gain, Frac(95, 1)) THEN gain ELSE Frac(95, 1)
                    ELSE IF my_points < opponent_points
                    THEN IF FLt(Frac(5, 1), loss) THEN loss ELSE Frac(5, 1)
                    ELSE fifty
        larger == IF my_points > opponent_points THEN my_points ELSE opponent_points
    IN  \* the divisions by opponent_points, my_points and max(...)
        IF \/ (my_points > opponent_points /\ opponent_points = 0)
           \/ (my_points < opponent_points /\ my_points = 0)
           \/ larger = 0
        THEN Raised("ZeroDivisionError")
        ELSE [matchup_analysis |->
                 [matchup_result |-> IF my_points > opponent_points THEN "win"
                                     ELSE IF my_points < opponent_points THEN "loss"
                                     ELSE "tie",
                  my_points |-> my_points,
                  opponent_points |-> opponent_points,
                  point_difference |-> point_diff,
                  winning_probability |-> FRound(win_prob, 10),
                  my_top_performers |-> FirstN(my_results.player_breakdown, 5),
                  opponent_top_performers |->
                      FirstN(opponent_results.player_breakdown, 5),
                  strategy_recommendations |->
                      generate_points_strategies(my_points, opponent_points,
                                                 point_diff)]]

\* The scorer the dispatch runs, if any.
ScorerRun(league_config) ==
    LET scoring_type == ConfigGet(league_config, "scoring_type", "h2h_categories")
    IN  IF scoring_type = "h2h_categories" THEN "calculate_h2h_categories"
        ELSE IF scoring_type = "h2h_points" THEN "calculate_h2h_points"
        ELSE "none"

\* The dispatch with every unsupported type sent to the categories analysis.
AnalyzeAsCategoriesByDefault(my_projections, opponent_projections, league_config) ==
    IF ConfigGet(league_config, "scoring_type", "h2h_categories") = "h2h_points"
    THEN analyze_h2h_points_matchup(my_projections, opponent_projections, league_config)
    ELSE analyze_h2h_categories_matchup(my_projections, opponent_projections,
                                        league_config)

analyze_h2h_matchup(my_projections, opponent_projections, league_config) ==
    LET scoring_type == ConfigGet(league_config, "scoring_type", "h2h_categories")
    IN  IF scoring_type = "h2h_categories"
        THEN analyze_h2h_categories_matchup(my_projections, opponent_projections,
                                            league_config)
        ELSE IF scoring_type = "h2h_points"
        THEN analyze_h2h_points_matchup(my_projections, opponent_projections,
                                        league_config)
        ELSE [error |-> "Unsupported scoring type for matchup analysis"]

predict_matchup_outcome(my_projections, opponent_projections, league_config) ==
    LET analysis == analyze_h2h_matchup(my_projections, opponent_projections,
                                        league_config)
    IN  IF IsRaised(analysis) THEN analysis
        \* analysis['matchup_analysis']
        ELSE IF "matchup_analysis" \notin DOMAIN analysis THEN Raised("KeyError")
        ELSE LET matchup == analysis.matchup_analysis
             IN  [predicted_result |-> matchup.matchup_result,
                  winning_probability |-> matchup.winning_probability,
                  confidence |-> IF Abs(matchup.winning_probability - 500) > 200
                                 THEN "High" ELSE "Moderate",
                  key_insights |-> FirstN(matchup.strategy_recommendations, 3)]

\* league_config dicts of the matchup endpoints; keys may be absent.
MatchupScoringTypes == {"h2h_categories", "h2h_points", "roto", "points"}

MatchupSettings ==
    {[categories |-> c, points_values |-> v, games_per_week |-> g] :
        c \in {<<"PTS", "TO">>, <<"REB", "FG_PCT", "PTS">>, <<>>},
        v \in {<<>>, ("PTS" :> 10), ("TO" :> -10) @@ ("STL" :> 30)},
        g \in GamesPerWeek}

MatchupConfigs ==
    MatchupSettings
    \cup {[scoring_type |-> t] @@ s : t \in MatchupScoringTypes, s \in MatchupSettings}
    \cup {[scoring_type |-> t] : t \in MatchupScoringTypes}

InitMatchup ==
    /\ pc = "ready"
    /\ \E mo \in MatchupRosters, cfg \in MatchupConfigs,
          f \in {"analyze_h2h_matchup", "predict_matchup_outcome"} :
          /\ args = [fn |-> f,
                     my_projections |-> mo[1],
                     opponent_projections |-> mo[2],
                     league_config |-> cfg]
          /\ roster = mo[1]
    /\ locals = NoLocals
    /\ result = NoResult

AnalyzeH2HMatchup ==
    /\ pc = "ready"
    /\ args.fn = "analyze_h2h_matchup"
    /\ locals' = [scoring_type |->
                     ConfigGet(args.league_config, "scoring_type", "h2h_categories"),
                  scorer |-> ScorerRun(args.league_config)]
    /\ result' = [analysis |-> analyze_h2h_matchup(roster, args.opponent_projections,
                                                   args.league_config)]
    /\ pc' = "done"
    /\ UNCHANGED <<args, roster>>

PredictMatchupOutcome ==
    /\ pc = "ready"
    /\ args.fn = "predict_matchup_outcome"
    /\ locals' = [analysis |-> analyze_h2h_matchup(roster, args.opponent_projections,
                                                   args.league_config)]
    /\ result' = [prediction |->
                     predict_matchup_outcome(roster, args.opponent_projections,
                                             args.league_config)]
    /\ pc' = "done"
    /\ UNCHANGED <<args, roster>>

NextMatchup == AnalyzeH2HMatchup \/ PredictMatchupOutcome

SpecMatchup == InitMatchup /\ [][NextMatchup]_vars

MatchupDone(fn) == pc = "done" /\ args.fn = fn

ScoringTypeOf(league_config) ==
    IF "scoring_type" \in DOMAIN league_config THEN league_config.scoring_type
    ELSE "absent"

\* The analysis is the categories scorer's result for these teams, with the
\* strategy list added, or the scorer's exception.
IsCategoriesAnalysis(analysis) ==
    LET scored == calculate_h2h_categories(
                      args.my_projections, args.opponent_projections,
                      IF "categories" \in DOMAIN args.league_config
                      THEN args.league_config.categories ELSE <<>>,
                      IF "games_per_week" \in DOMAIN args.league_config
                      THEN args.league_config.games_per_week ELSE 333)
    IN  IF IsRaised(scored) THEN analysis = scored
        ELSE /\ DOMAIN analysis = {"matchup_analysis"}
             /\ \A k \in DOMAIN scored : analysis.matchup_analysis[k] = scored[k]
             /\ "strategy_recommendations" \in DOMAIN analysis.matchup_analysis

\* The analysis carries the two teams' fantasy point totals of the points
\* scorer, or is an exception.
IsPointsAnalysis(analysis) ==
    LET values == IF "points_values" \in DOMAIN args.league_config
                  THEN args.league_config.points_values ELSE <<>>
        games == IF "games_per_week" \in DOMAIN args.league_config
                 THEN args.league_config.games_per_week ELSE 333
        mine == calculate_h2h_points(args.my_projections, values, games)
        theirs == calculate_h2h_points(args.opponent_projections, values, games)
    IN  \/ IsRaised(analysis)
        \/ /\ DOMAIN analysis = {"matchup_analysis"}
           /\ analysis.matchup_analysis.my_points = mine.total_fantasy_points
           /\ analysis.matchup_analysis.opponent_points = theirs.total_fantasy_points
           /\ analysis.matchup_analysis.point_difference
                  = mine.total_fantasy_points - theirs.total_fantasy_points

DispatchesWithPayload(payload) ==
    MatchupDone("analyze_h2h_matchup") =>
        LET scoring_type == ScoringTypeOf(args.league_config)
        IN  /\ scoring_type \in {"h2h_categories", "absent"} =>
                /\ locals.scorer = "calculate_h2h_categories"
                /\ IsCategoriesAnalysis(result.analysis)
            /\ scoring_type = "h2h_points" =>
                /\ locals.scorer = "calculate_h2h_points"
                /\ IsPointsAnalysis(result.analysis)
            /\ scoring_type \notin {"h2h_categories", "absent", "h2h_points"} =>
                /\ locals.scorer = "none"
                /\ ~IsRaised(result.analysis)
                /\ result.analysis = payload

\* C19 as stated: analyze_h2h_matchup sends 'h2h_categories' and an absent
\* scoring_type to the categories analysis, 'h2h_points' to the points
\* analysis, and answers any other value with the payload
\* {error: "Unsupported scoring type"}, without raising and without running a
\* scorer.
C19_Original_PayloadText ==
    DispatchesWithPayload([error |-> "Unsupported scoring type"])

\* C19: the same dispatch, with the payload the code returns:
\* {error: "Unsupported scoring type for matchup analysis"}.
C19_DispatchOnScoringType ==
    DispatchesWithPayload([error |-> "Unsupported scoring type for matchup analysis"])

\* A roto league was dispatched for a team with players and answered with
\* the error payload.
C19_Witness ==
    /\ MatchupDone("analyze_h2h_matchup")
    /\ ScoringTypeOf(args.league_config) = "roto"
    /\ "error" \in DOMAIN result.analysis
    /\ Len(args.my_projections) > 0

\* C20: predict_matchup_outcome on a league whose scoring_type is neither
\* h2h_categories nor h2h_points returns a structured value and does not raise.
C20_PredictionOnUnsupportedTypeDoesNotRaise ==
    (/\ MatchupDone("predict_matchup_outcome")
     /\ ScoringTypeOf(args.league_config) \notin {"h2h_categories", "absent", "h2h_points"})
        => ~IsRaised(result.prediction)

PointsMatchupDone ==
    /\ MatchupDone("analyze_h2h_matchup")
    /\ ScoringTypeOf(args.league_config) = "h2h_points"

\* C21: analyze_h2h_points_matchup returns a result record for every pair of
\* rosters, also when a side's fantasy-point total is 0: no division fails.
C21_PointsMatchupNeverRaises ==
    PointsMatchupDone => ~IsRaised(result.analysis)

\* C22: calculate_h2h_categories returns a result record for every input,
\* an empty categories list and empty rosters included: it never raises.
C22_H2HCategoriesNeverRaises ==
    (pc = "done" /\ args.fn = "calculate_h2h_categories") => ~IsRaised(result)

\* C23: a returned points analysis has winning_probability in [5, 95], at
\* least 50 on a win, at most 50 on a loss and exactly 50 on a tie.
C23_WinningProbabilityInRange ==
    (PointsMatchupDone /\ ~IsRaised(result.analysis)) =>
        LET matchup == result.analysis.matchup_analysis
        IN  /\ matchup.winning_probability >= 50
            /\ matchup.winning_probability <= 950
            /\ matchup.matchup_result = "win" => matchup.winning_probability >= 500
            /\ matchup.matchup_result = "loss" => matchup.winning_probability <= 500
            /\ matchup.matchup_result = "tie" => matchup.winning_probability = 500

StarterSlots(lineup) == DOMAIN lineup \ {"BE"}

BenchPlayers == {result.bench[i] : i \in 1..Len(result.bench)}

StartersAt(slot) == {result.lineup[slot][i] : i \in 1..Len(result.lineup[slot])}

BelowRequiredCount(slot) ==
    Len(result.lineup[slot]) < args.position_requirements[slot]

\* C24: in the returned lineup no bench player eligible for a starting slot
\* has a strictly higher value than a player assigned to that slot, and a
\* starting slot holds fewer players than required only if no bench player is
\* eligible for it.
C24_NoBetterEligiblePlayerOnBench ==
    LineupDone =>
        \A slot \in StarterSlots(result.lineup) :
            /\ \A b \in BenchPlayers, p \in StartersAt(slot) :
                   Eligible(b, slot) => b.value <= p.value
            /\ BelowRequiredCount(slot) =>
                   \A b \in BenchPlayers : ~Eligible(b, slot)

\* A benched player is eligible for a slot whose starter is worth strictly
\* more, and another slot stays short for want of an eligible player.
C24_Witness ==
    /\ LineupDone
    /\ \E slot \in StarterSlots(result.lineup) :
          \E b \in BenchPlayers, p \in StartersAt(slot) :
              Eligible(b, slot) /\ b.value < p.value
    /\ \E slot \in StarterSlots(result.lineup) :
          BelowRequiredCount(slot) /\ BenchPlayers # {}

SwapsEmitted ==
    {result.lineup_suggestions[i] : i \in
        {j \in 1..Len(result.lineup_suggestions) :
            result.lineup_suggestions[j].type = "swap"}}

\* The value of the rostered player of that name.
ValueOfNamed(name) ==
    (CHOOSE p \in Range(roster) : p.player_name = name).value

\* C25: every swap suggestion of optimize_lineup names a bench player whose
\* value is strictly greater than the named starter's (value_improvement > 0)
\* and more than 10% above it, negative values included.
C25_SwapsImproveTheLineup ==
    LineupDone =>
        \A sw \in SwapsEmitted :
            /\ ValueOfNamed(sw.bench_in) > ValueOfNamed(sw.bench_out)
            /\ sw.value_improvement > 0
            /\ 10 * (ValueOfNamed(sw.bench_in) - ValueOfNamed(sw.bench_out))
                   > Abs(ValueOfNamed(sw.bench_out))

\* Actual minus target of TO, over the denominator 100 * actual.d.
TurnoverOvershoot ==
    LET actual == locals.category_totals["TO"].actual
    IN  [n |-> actual.n * 100 - Get(args.weekly_targets, "TO") * actual.d,
         d |-> 100 * actual.d]

\* C26: calculate_roto_score never gives TO the status 'behind': when TO's
\* actual exceeds its target the gap is negative and the status is
\* 'on_track', however large the overshoot.
C26_TurnoversNeverBehind ==
    (RotoDone /\ "TO" \in Range(args.categories)) =>
        /\ result.category_results["TO"].status /= "behind"
        /\ TurnoverOvershoot.n > 0 =>
               /\ result.category_results["TO"].gap <= 0
               /\ result.category_results["TO"].status = "on_track"

\* Turnovers more than 5 above a set target, reported on_track.
C26_Witness ==
    /\ RotoDone
    /\ "TO" \in Range(args.categories)
    /\ Get(args.weekly_targets, "TO") > 0
    /\ TurnoverOvershoot.n > 5 * TurnoverOvershoot.d
    /\ result.category_results["TO"].gap < -500
    /\ result.category_results["TO"].status = "on_track"

\* The top-10 candidates worth more than 1.5 x the given remaining value.
CandidatesExceeding(remaining_value) ==
    SelectSeq(FirstN(result.streaming_candidates, 10),
              LAMBDA c : Exceeds(c.streaming_value, remaining_value))

\* C27: in one call every suggestion drops the same rostered player, the
\* first in ascending remaining-value order, whose remaining value is the
\* minimum; the adds are the first (up to 5) of the top-10 candidates whose
\* value exceeds 1.5 x that minimum, and a candidate that does not exceed it
\* exceeds 1.5 x no rostered player's value.
C27_EverySuggestionDropsTheWeakest ==
    StreamingDone =>
        LET s == result.streaming_suggestions
        IN  IF args.roster_players = <<>> THEN s = <<>>
            ELSE LET weakest == roster[1]
                     adds == FirstN(CandidatesExceeding(weakest.remaining_value), 5)
                 IN  /\ \A q \in Range(args.roster_players) :
                            weakest.remaining_value <= RemainingValueOf(q)
                     /\ weakest.remaining_value
                            = RemainingValueOf(RosterPlayer(weakest.player_id))
                     /\ Len(s) = Len(adds)
                     /\ \A i \in 1..Len(s) :
                            /\ s[i].drop.player_id = weakest.player_id
                            /\ s[i].add.player_id = adds[i].player_id
                     /\ \A k \in 1..Len(result.streaming_candidates) :
                            ~Exceeds(result.streaming_candidates[k].streaming_value,
                                     weakest.remaining_value)
                                => \A q \in Range(args.roster_players) :
                                       ~Exceeds(result.streaming_candidates[k].streaming_value,
                                                RemainingValueOf(q))

\* Two candidates are worth more than both of two rostered players of
\* different remaining value, given weakest last, and a third candidate is
\* worth neither: both suggestions drop the weakest.
C27_Witness ==
    /\ StreamingDone
    /\ Len(args.roster_players) >= 2
    /\ RemainingValueOf(args.roster_players[1])
           > RemainingValueOf(args.roster_players[Len(args.roster_players)])
    /\ Len(result.streaming_suggestions) >= 2
    /\ \A i \in 1..2 : \A q \in Range(args.roster_players) :
           Exceeds(result.streaming_suggestions[i].add.streaming_value,
                   RemainingValueOf(q))
    /\ \E k \in 1..Len(result.streaming_candidates) :
           ~Exceeds(result.streaming_candidates[k].streaming_value,
                    roster[1].remaining_value)

\* The categories a note of the given kind names.
NotedCategories(text) ==
    LET notes == result.trade_analysis.recommendation.notes
    IN  UNION {Range(notes[i].categories) :
                  i \in {j \in 1..Len(notes) : notes[j].text = text}}

\* C28: every category named in the 'Opportunity: Major improvement' note has
\* category-impact status 'improved', and every category named in the
\* 'Risk: Significant decline' note has status 'declined'.
C28_NotesAgreeWithStatus ==
    AnalyzeDone =>
        /\ \A c \in NotedCategories("Opportunity") :
               result.trade_analysis.category_impact[c].status = "improved"
        /\ \A c \in NotedCategories("Risk") :
               result.trade_analysis.category_impact[c].status = "declined"

\* post_trade_total - current_total of one category before rounding, in
\* ten-thousandths.
UnroundedDifference(cat) ==
    CategorySum(args.receiving_projections, cat, args.league_config.games_per_week)
    - CategorySum(args.giving_projections, cat, args.league_config.games_per_week)

\* C29: the category-impact differences of the league's categories add up to
\* games_per_week x value_change, before rounding, whether or not every
\* giving player is on the current roster.
C29_CategoryDifferencesAddUpToValueChange ==
    AnalyzeDone =>
        SumSeq([i \in 1..Len(args.league_config.categories) |->
                   UnroundedDifference(args.league_config.categories[i])])
            = args.league_config.games_per_week * locals.value_change

\* The categories in which the opponent's total is 0 or less and mine is not
\* the same.
OpponentAtZero ==
    {i \in 1..Len(args.categories) :
        LET mine == locals.my_totals[args.categories[i]]
            theirs == locals.opp_totals[args.categories[i]]
        IN  FLe(theirs, Zero) /\ (FLt(mine, theirs) \/ FLt(theirs, mine))}

\* C30: a category in which the opponent's total is 0 (or negative) and my
\* total differs is reported with percent_difference 0, is listed in
\* close_categories and is not in blowout_categories, whatever the difference.
C30_ZeroOpponentTotalIsClose ==
    H2HReturned =>
        \A i \in OpponentAtZero :
            LET entry == result.category_breakdown[i]
            IN  /\ entry.percent_difference = 0
                /\ entry \in Range(result.close_categories)
                /\ entry \notin Range(result.blowout_categories)

\* My total is more than 10 above an opponent total of 0, and the category
\* is reported close.
C30_Witness ==
    /\ H2HReturned
    /\ \E i \in OpponentAtZero :
          /\ result.category_breakdown[i].opponent_total = 0
          /\ result.category_breakdown[i].difference > 1000
          /\ result.category_breakdown[i].status = "win"
          /\ result.category_breakdown[i] \in Range(result.close_categories)

=============================================================================
